---- MODULE Spec2Model ----
(***************************************************************************)
(* zaplogmanager: the log retention and compression engine.                *)
(*                                                                         *)
(* Two state machines share this module.                                   *)
(*   SpecGuard    - the Job Runner and its Concurrency Guard: the throttle *)
(*                  of safeRunCompressionJob, the processingDirs and       *)
(*                  processingFiles registries, the per-directory locks    *)
(*                  and the per-directory workers of runCompressionJob.    *)
(*   SpecCompress - the Compression Engine on one directory: safeCompress  *)
(*                  of an old dated log, the indexed compression of a      *)
(*                  current log in the revisions the repository holds,     *)
(*                  the forced overnight compression and the sweep.        *)
(* Durations are counted in seconds.                                       *)
(***************************************************************************)
EXTENDS Integers, Sequences, FiniteSets, TLC

\* ------------------------------------------------------------------ bounds
\* calls of safeRunCompressionJob made in one behaviour
MaxRuns == 3
\* clock advances in one behaviour
MaxTicks == 2
\* a clock advance shorter than minInterval, in seconds
ShortStep == 3
\* days that roll over (a new dated log becomes old) in one behaviour
MaxRollovers == 1

\* the largest archive index
MaxIndex == 6

\* compression operations started
MaxOps == 3
\* passes over the directory
MaxPasses == 2
\* the longest retention, in half days
MaxRetention == 3
\* the oldest date of the old files, in days before today
MaxAge == 2
\* a date far before every retention, in days before today
LongAgo == 31
\* walk errors in the sweeps
MaxWalkErrors == 1

\* ------------------------------------------------------- program constants
\* minInterval = time.Second * 5
minInterval == 5
\* time.Minute*5, the staleness window of both registries
staleWindow == 300

\* ---------------------------------------------------------------- the paths
\* The process runs with working directory "/": "logs" and "/logs" are one
\* directory, "/var" is another one, "/missing" does not exist.
Paths == {"logs", "/logs", "/var", "/missing"}

\* filepath.Abs
Abs(p) == IF p = "logs" THEN "/logs" ELSE p

AbsDirs == {Abs(p) : p \in Paths}

\* os.Stat(absDir) succeeds and fi.IsDir()
IsDir(a) == a \in {"/logs", "/var"}

\* the directory lists a caller passes to StartLogCompression
DirLists ==
    { <<"logs">>, <<"/logs">>, <<"logs", "/logs">>, <<"/logs", "/logs">>,
      <<"/logs", "/var">>, <<"/missing", "/logs">> }

\* the longest directory list
MaxListLen == 2

\* clock ticks to the second
SubSecond == 2

\* the daily trigger is followed up to the end of this day
MaxDays == 3

\* calls of processFile on the file
MaxWalks == 2

\* the capacity of the channel of a BufferedWriteSyncer, in records (the
\* program makes it with bufferSize = 256 * 1024)
MaxBuffered == 2
\* records handed to Write in one behaviour
MaxRecords == 4
\* calls of Sync in one behaviour
MaxSyncs == 2
\* calls of cleanExpiredGzLogs on the directory of one file
MaxSweeps == 2
\* records in the current log when its compression begins
MaxLogged == 2
\* records the writer appends from then on
MaxAppends == 2
\* calls of safeRunCompressionJob followed statement by statement
MaxLockCalls == 3
\* the int index of compressCurrentLogWithIndex has the values
\* -MaxSearch - 1 .. MaxSearch and wraps around as a Go int does
MaxSearch == 4

\* hours the zones lie west and east of UTC
WestOffset == 5
EastOffset == 8

\* the trigger goroutines that call safeRunCompressionJob concurrently
Triggers == {1, 2}

NoWorker == <<0, 0>>
WorkerIds == Triggers \X (1..MaxListLen)

VARIABLES
    \* --- SpecGuard
    logDirs,          \* the configured directory list
    sinceLastRun,     \* time.Since(lastRunTime) at the latest reading of the clock
    ticks,            \* clock advances so far
    processingDirs,   \* keys of map processingDirs
    regInfo,          \* history: who registered each key, and how long ago
    processingFiles,  \* keys of map processingFiles
    dirLocks,         \* keys of dirLocks.locks
    locked,           \* the mutexes that are held
    pass,             \* per trigger: position in safeRunCompressionJob/runCompressionJob
    worker,           \* per trigger and list index: the goroutine of runCompressionJob
    oldLog,           \* per directory: the old dated log exists
    gzCount,          \* per directory: times an archive of the current old log was written
    calls,            \* calls of safeRunCompressionJob so far
    rollovers,        \* day rollovers so far
    lastGap           \* history: time between the starts of the two latest accepted passes

guardVars ==
    << logDirs, sinceLastRun, ticks, processingDirs, regInfo, processingFiles,
       dirLocks, locked, pass, worker, oldLog, gzCount, calls, rollovers, lastGap >>

VARIABLES
    \* --- SpecCompress
    rev,        \* the revision of the compression code that runs
    src,        \* the current log <base>.log
    tmp,        \* per index: the file <archive>.tmp
    archive,    \* per index: the indexed archive of the current log
    oldSrc,     \* the old dated log
    gz,         \* its archive <old>.gz
    cpc,        \* position inside the running operation
    op,         \* the running (or last) operation
    dst,        \* the index the running operation writes
    fault,      \* the step of the last operation that failed
    created,    \* history: the indices of the archives in the order of creation
    ops,        \* operations started so far
    expired,    \* the retention time of the archives has passed
    attempts    \* attempts of the running (or last) checkAndCompressCurrentLog

compVars ==
    << rev, src, tmp, archive, oldSrc, gz, cpc, op, dst, fault, created, ops, expired,
       attempts >>

VARIABLES
    \* --- SpecPass
    halfDay,     \* time.Now(): half days since the midnight of today
    retention,   \* compressMaxSave in half days
    oldDate,     \* the date in the names of the old files, in days from today
    files,       \* the directory
    registered,  \* paths another goroutine holds in processingFiles
    osLocked,    \* paths another process holds locked
    ppc,         \* position of the pass over the directory
    names,       \* filepath.Walk of the sweep: the names still to visit
    walkErr,     \* the walk error at the path the sweep visited last
    sweepErr,    \* what the latest cleanExpiredGzLogs returned
    errors,      \* walk errors so far
    hist,        \* history: the directory before the first pass and after each pass
    walkRet,     \* what the compression walk of the latest pass returned
    sweeps       \* history: calls of cleanExpiredGzLogs in the latest pass

passVars ==
    << halfDay, retention, oldDate, files, registered, osLocked, ppc, names, walkErr,
       sweepErr, errors, hist, walkRet, sweeps >>

VARIABLES
    \* --- SpecSchedule
    sched,      \* the revision of the scheduler that runs
    zone,       \* the local time zone: without or with a change to summer time
    target,     \* the configured fire time of day
    clock,      \* time.Now()
    calledAt,   \* history: time.Now() at the latest call of nextRunTime
    next,       \* the instant the timer is set to
    spc,        \* position in the loop of scheduleDailyJob
    fires,      \* times the timer fired
    jobs,       \* times the daily job ran
    ylog        \* the log that carries the date of yesterday

schedVars == << sched, zone, target, clock, calledAt, next, spc, fires, jobs, ylog >>

VARIABLES
    \* --- SpecFile
    utils,      \* the revision of isOldLogFile
    tz,         \* the offset of the local zone from UTC, in hours
    hour,       \* time.Now(): local hours since the local midnight of day 0
    fname,      \* the name of the file: its extension and the date in it
    size,       \* the file: small, big (maxCurrentSize or more), empty or gone
    held,       \* what another process does with the file
    did,        \* history: what the latest processFile did to the file
    walked,     \* calls of processFile so far
    verdict,    \* history: what isOldLogFile said first in the latest processFile
    askedAt     \* history: time.Now() at that call

fileVars == << utils, tz, hour, fname, size, held, did, walked, verdict, askedAt >>

VARIABLES
    \* --- SpecBuffer
    buffer,     \* the channel ws.buffer: the records queued, oldest first
    taken,      \* the record flushRoutine has received and not yet written (0: none)
    written,    \* the records that reached the underlying writer, in order
    accepted,   \* calls of Write that returned without error: the records 1..accepted
    failed,     \* records whose write to the underlying writer returned an error
    waiting,    \* history: the records in memory only when the latest Sync returned
    syncs       \* calls of Sync so far

bufVars == << buffer, taken, written, accepted, failed, waiting, syncs >>

\* no BufferedWriteSyncer in use
IdleBuffer ==
    /\ buffer = << >>
    /\ taken = 0
    /\ written = << >>
    /\ accepted = 0
    /\ failed = {}
    /\ waiting = {}
    /\ syncs = 0

VARIABLES
    \* --- SpecSweep
    entry,      \* the file the walk of the sweep visits: the form of its name
    present,    \* the file exists
    today,      \* time.Now(): half days since the midnight of today
    maxSave,    \* maxSaveTime of cleanExpiredGzLogs, in half days
    visits      \* calls of cleanExpiredGzLogs so far

sweepVars == << entry, present, today, maxSave, visits >>

\* no sweep of a single file
IdleSweep ==
    /\ entry = [ext |-> "log", date |-> "none", day |-> 0]
    /\ present = TRUE
    /\ today = 0
    /\ maxSave = 0
    /\ visits = 0

VARIABLES
    \* --- SpecAppend
    mode,       \* the compression that runs: "index" or "force"
    logData,    \* the records in the current log
    archData,   \* the records in the archive the compression writes
    initial,    \* the records in the log when the compression began
    appended,   \* the records the writer has appended so far: 1..appended
    linked,     \* the log still has its name in the directory
    apc         \* position in gzipLogFileWithIndex and its caller

appendVars == << mode, logData, archData, initial, appended, linked, apc >>

\* no compression of a log under a writer
IdleAppend ==
    /\ mode = "index"
    /\ logData = {}
    /\ archData = {}
    /\ initial = 0
    /\ appended = 0
    /\ linked = TRUE
    /\ apc = "idle"

VARIABLES
    \* --- SpecLock
    lpc,        \* per task (trigger goroutine or worker): the statement it is at
    mutex,      \* per mutex: the task that holds it, or NoTask
    regDirs,    \* the keys of processingDirs
    regFiles,   \* the directories with a path in processingFiles
    stamped,    \* lastRunTime has been set
    lcalls      \* calls of safeRunCompressionJob so far

lockVars == << lpc, mutex, regDirs, regFiles, stamped, lcalls >>

\* the directories of the list, both absolute
LockDirs == {"/logs", "/var"}

NoTask == << 0, "" >>
TriggerTasks == {<< t, "" >> : t \in Triggers}
WorkerTasks == Triggers \X LockDirs
Tasks == TriggerTasks \cup WorkerTasks

Mutexes == {"taskLock", "processingMu", "filesMu", "dirLocks.mu"} \cup LockDirs

\* no goroutine of the engine is running
IdleLock ==
    /\ lpc = [k \in Tasks |-> IF k \in TriggerTasks THEN "idle" ELSE "none"]
    /\ mutex = [m \in Mutexes |-> NoTask]
    /\ regDirs = {}
    /\ regFiles = {}
    /\ stamped = FALSE
    /\ lcalls = 0

VARIABLES
    \* --- SpecLive
    nameLen,    \* per directory: bytes in the file name of its current log
    big,        \* per directory: the current log has reached maxCurrentSize
    indexed,    \* per directory: <base>.1.gz .. <base>.n.gz exist
    index       \* per worker: index of compressCurrentLogWithIndex, 0 outside

liveVars == << nameLen, big, indexed, index >>

\* longest file name the file system accepts, in bytes
NameMax == 255

\* the watched directories that exist
LiveDirs == {d \in AbsDirs : IsDir(d)}

\* no current log is large, no index is being searched
IdleLive ==
    /\ nameLen = [d \in LiveDirs |-> NameMax - 1]
    /\ big = [d \in LiveDirs |-> FALSE]
    /\ indexed = [d \in LiveDirs |-> 0]
    /\ index = [w \in WorkerIds |-> 0]

vars == << guardVars, compVars, passVars, schedVars, fileVars, bufVars, sweepVars, appendVars, lockVars, liveVars >>

\* the scheduler before StartLogCompression
IdleSched ==
    /\ sched = "part_003"
    /\ zone = "fixed"
    /\ target = 0
    /\ clock = 0
    /\ calledAt = 0
    /\ next = 0
    /\ spc = "idle"
    /\ fires = 0
    /\ jobs = 0
    /\ ylog = "absent"

\* no file under processFile
IdleFile ==
    /\ utils = "part_005"
    /\ tz = 0
    /\ hour = 0
    /\ fname = [ext |-> "log", dated |-> FALSE, day |-> 0]
    /\ size = "small"
    /\ held = "free"
    /\ did = << >>
    /\ walked = 0
    /\ verdict = FALSE
    /\ askedAt = 0

Indices == 1..MaxIndex

\* the directory before any operation: no archive, no temporary file
CompressAtRest ==
    /\ src = "intact"
    /\ tmp = [i \in Indices |-> "none"]
    /\ archive = [i \in Indices |-> "none"]
    /\ oldSrc = "intact"
    /\ gz = "none"
    /\ cpc = "idle"
    /\ op = "none"
    /\ dst = 0
    /\ fault = "none"
    /\ created = << >>
    /\ ops = 0
    /\ expired = FALSE
    /\ attempts = 0

IdleCompress == rev = "p000a" /\ CompressAtRest

\* an empty directory, no pass
NoFiles ==
    [bare1 |-> FALSE, log |-> FALSE, log1 |-> FALSE, gz |-> FALSE, cur |-> "absent",
     carch |-> 0]

IdlePassVars ==
    /\ halfDay = 0
    /\ retention = 0
    /\ oldDate = -1
    /\ files = NoFiles
    /\ registered = {}
    /\ osLocked = {}
    /\ ppc = "idle"
    /\ names = << >>
    /\ walkErr = "none"
    /\ sweepErr = "none"
    /\ errors = 0
    /\ hist = << >>
    /\ walkRet = "none"
    /\ sweeps = 0

\* Durations are compared with minInterval and with the staleness window only:
\* one longer than the window is kept as Stale.
Stale == staleWindow + 1

Plus(a, dt) == IF a + dt > staleWindow THEN Stale ELSE a + dt

\* the history keeps a gap up to minInterval as it is, a longer one as Stale
Gap(a) == IF a > minInterval THEN Stale ELSE a

NoReg == [by |-> 0, age |-> 0]

IdlePass ==
    [pc |-> "idle", dirsToProcess |-> << >>, overlapped |-> FALSE, saw |-> {}]

NoGoroutine == [pc |-> "none", d |-> "", lock |-> << "", NoWorker >>]

Running(t) == pass[t].pc \in {"scan", "launch", "wait"}

\* lastRunTime is the zero Time at first: time.Since(lastRunTime) is far beyond
\* every window.
GuardAtRest ==
    /\ sinceLastRun = Stale
    /\ ticks = 0
    /\ processingDirs = {}
    /\ regInfo = [k \in Paths |-> NoReg]
    /\ processingFiles = {}
    /\ dirLocks = {}
    /\ locked = {}
    /\ pass = [t \in Triggers |-> IdlePass]
    /\ worker = [w \in WorkerIds |-> NoGoroutine]
    /\ oldLog = [d \in AbsDirs |-> IsDir(d)]
    /\ gzCount = [d \in AbsDirs |-> 0]
    /\ calls = 0
    /\ rollovers = 0
    /\ lastGap = Stale

InitGuard ==
    /\ logDirs \in DirLists
    /\ GuardAtRest
    /\ IdleLive
    /\ IdleLock
    /\ IdleAppend
    /\ IdleSweep
    /\ IdleBuffer
    /\ IdleCompress
    /\ IdlePassVars
    /\ IdleSched
    /\ IdleFile

\* The clock is read by time.Now() and time.Since() only; dt is the time that
\* passed since the previous reading.
TickSteps == {ShortStep, minInterval, staleWindow + 1}

Aged(reg, dt) ==
    [k \in Paths |-> IF k \in processingDirs
                     THEN [reg[k] EXCEPT !.age = Plus(@, dt)] ELSE NoReg]

Elapse(dt) ==
    /\ dt \in {0} \cup TickSteps
    /\ dt > 0 => ticks < MaxTicks
    /\ ticks' = IF dt > 0 THEN ticks + 1 ELSE ticks

\* The logger rotates at the day boundary: a new dated log becomes old in d.
\* No earlier pass has seen this file.
Rollover(d) ==
    /\ rollovers < MaxRollovers
    /\ IsDir(d)
    /\ ~oldLog[d]
    /\ \A t \in Triggers : ~Running(t) /\ pass[t].pc # "crashed"
    /\ rollovers' = rollovers + 1
    /\ oldLog' = [oldLog EXCEPT ![d] = TRUE]
    /\ gzCount' = [gzCount EXCEPT ![d] = 0]
    /\ pass' = [t \in Triggers |-> [pass[t] EXCEPT !.saw = {}]]
    /\ UNCHANGED << compVars, passVars, schedVars, fileVars, bufVars, sweepVars, appendVars, lockVars, liveVars >>
    /\ UNCHANGED << logDirs, lastGap, sinceLastRun, ticks, processingDirs, regInfo,
                    processingFiles, dirLocks, locked, worker, calls >>

\* ------------------------------------------------- safeRunCompressionJob
CanCall(t) == pass[t].pc \in {"idle", "rejected", "returned"} /\ calls < MaxRuns

\* a pass that never looks at the interval
TooSoonNever(since) == FALSE

\* time.Since(lastRunTime) < minInterval
TooSoon(since) == since < minInterval

\* taskLock held: time.Since(lastRunTime) < minInterval, return
Throttled(t, dt) ==
    /\ CanCall(t)
    /\ Elapse(dt)
    /\ TooSoon(Plus(sinceLastRun, dt))
    /\ sinceLastRun' = Plus(sinceLastRun, dt)
    /\ regInfo' = Aged(regInfo, dt)
    /\ calls' = calls + 1
    /\ pass' = [pass EXCEPT ![t] = [IdlePass EXCEPT !.pc = "rejected"]]
    /\ UNCHANGED << compVars, passVars, schedVars, fileVars, bufVars, sweepVars, appendVars, lockVars, liveVars >>
    /\ UNCHANGED << logDirs, lastGap, processingDirs, processingFiles, dirLocks, locked, worker,
                    oldLog, gzCount, rollovers >>

\* taskLock held: lastRunTime = time.Now(), then runCompressionJob is entered.
\* What an earlier pass of this trigger left in the registry no longer belongs
\* to a running pass.
Accepted(t, dt) ==
    /\ CanCall(t)
    /\ Elapse(dt)
    /\ ~TooSoon(Plus(sinceLastRun, dt))
    /\ sinceLastRun' = 0
    /\ lastGap' = Gap(Plus(sinceLastRun, dt))
    /\ regInfo' = [k \in Paths |->
                     IF Aged(regInfo, dt)[k].by = t
                     THEN [Aged(regInfo, dt)[k] EXCEPT !.by = 0]
                     ELSE Aged(regInfo, dt)[k]]
    /\ calls' = calls + 1
    /\ pass' = [pass EXCEPT ![t] = [IdlePass EXCEPT !.pc = "scan"]]
    /\ UNCHANGED << compVars, passVars, schedVars, fileVars, bufVars, sweepVars, appendVars, lockVars, liveVars >>
    /\ UNCHANGED << logDirs, processingDirs, processingFiles, dirLocks, locked, worker,
                    oldLog, gzCount, rollovers >>

\* ------------------------------------------------------ runCompressionJob
\* the eviction loop: every entry goes when time.Since(lastRunTime) > 5 minutes
EvictStale(reg, since) == IF since > staleWindow THEN {} ELSE reg

\* the marking loop: a directory already in the registry is skipped, the
\* others are registered under the spelling they were given in
RECURSIVE MarkDirs(_, _, _)
MarkDirs(list, reg, acc) ==
    IF list = << >> THEN acc
    ELSE IF Head(list) \in reg
         THEN MarkDirs(Tail(list), reg, acc)
         ELSE MarkDirs(Tail(list), reg \cup {Head(list)}, Append(acc, Head(list)))

Range(s) == {s[i] : i \in 1..Len(s)}

\* processingMu held: eviction, marking; unlock; return when nothing is left
RegistryScan(t, dt) ==
    /\ pass[t].pc = "scan"
    /\ Elapse(dt)
    /\ sinceLastRun' = Plus(sinceLastRun, dt)
    /\ LET kept == EvictStale(processingDirs, sinceLastRun')
           todo == MarkDirs(logDirs, kept, << >>)
           other == \E u \in Triggers \ {t} : Running(u)
       IN /\ processingDirs' = kept \cup Range(todo)
          /\ regInfo' = [k \in Paths |->
                           IF k \in Range(todo) THEN [by |-> t, age |-> 0]
                           ELSE IF k \notin kept THEN NoReg
                           ELSE [regInfo[k] EXCEPT !.age = Plus(@, dt)]]
          /\ pass' = [u \in Triggers |->
                        IF u = t
                        THEN [pc |-> IF todo = << >> THEN "returned" ELSE "launch",
                              dirsToProcess |-> todo,
                              overlapped |-> pass[t].overlapped \/ other,
                              saw |-> {d \in AbsDirs :
                                         /\ d \in {Abs(k) : k \in Range(logDirs)}
                                         /\ IsDir(d) /\ oldLog[d]}]
                        ELSE IF Running(u) THEN [pass[u] EXCEPT !.overlapped = TRUE]
                        ELSE pass[u]]
    /\ UNCHANGED << compVars, passVars, schedVars, fileVars, bufVars, sweepVars, appendVars, lockVars, liveVars >>
    /\ UNCHANGED << logDirs, lastGap, processingFiles, dirLocks, locked, worker, oldLog, gzCount,
                    calls, rollovers >>

\* the launching loop: filepath.Abs, os.Stat, go func(absDir) for every
\* registered entry that is a directory; the others are passed over
Launch(t) ==
    /\ pass[t].pc = "launch"
    /\ worker' = [w \in WorkerIds |->
                    IF /\ w[1] = t
                       /\ w[2] <= Len(pass[t].dirsToProcess)
                       /\ IsDir(Abs(pass[t].dirsToProcess[w[2]]))
                    THEN [pc |-> "lock", d |-> Abs(pass[t].dirsToProcess[w[2]]),
                          lock |-> << "", NoWorker >>]
                    ELSE worker[w]]
    /\ pass' = [pass EXCEPT ![t].pc = "wait"]
    /\ UNCHANGED << compVars, passVars, schedVars, fileVars, bufVars, sweepVars, appendVars, lockVars, liveVars >>
    /\ UNCHANGED << logDirs, lastGap, sinceLastRun, ticks, processingDirs, regInfo,
                    processingFiles, dirLocks, locked, oldLog, gzCount, calls, rollovers >>

\* wg.Wait() and return
WaitReturn(t) ==
    /\ pass[t].pc = "wait"
    /\ \A i \in 1..MaxListLen : worker[<<t, i>>].pc \in {"none", "done"}
    /\ pass' = [pass EXCEPT ![t].pc = "returned"]
    /\ worker' = [w \in WorkerIds |-> IF w[1] = t THEN NoGoroutine ELSE worker[w]]
    /\ UNCHANGED << compVars, passVars, schedVars, fileVars, bufVars, sweepVars, appendVars, lockVars, liveVars >>
    /\ UNCHANGED << logDirs, lastGap, sinceLastRun, ticks, processingDirs, regInfo,
                    processingFiles, dirLocks, locked, oldLog, gzCount, calls, rollovers >>

\* --------------------------------------------- the per-directory goroutine
\* dirLockMap.getLock: dm.mu held; the cached mutex of dir, created if absent.
\* A mutex is named by the key it is cached under.
getLockFresh(dir, w) == << dir, w >>

getLock(dir, w) == << dir, NoWorker >>

\* dirLock.Lock() blocks while the mutex is held
LockFree(m) == m \notin locked

\* dirLock := dirLocks.getLock(d); dirLock.Lock()
DirLock(w) ==
    /\ worker[w].pc = "lock"
    /\ LET m == getLock(worker[w].d, w)
       IN /\ LockFree(m)
          /\ locked' = locked \cup {m}
          /\ worker' = [worker EXCEPT ![w].lock = m, ![w].pc = "walk"]
    /\ dirLocks' = dirLocks \cup {worker[w].d}
    /\ UNCHANGED << compVars, passVars, schedVars, fileVars, bufVars, sweepVars, appendVars, lockVars, liveVars >>
    /\ UNCHANGED << logDirs, lastGap, sinceLastRun, ticks, processingDirs, regInfo,
                    processingFiles, pass, oldLog, gzCount, calls, rollovers >>

\* processDirectory: the eviction loop over processingFiles (filesMu held);
\* then filepath.Walk reaches the old dated log: a file in processingFiles is
\* skipped, another one is registered and handed to processFile
WalkFile(w, dt) ==
    /\ worker[w].pc = "walk"
    /\ Elapse(dt)
    /\ sinceLastRun' = Plus(sinceLastRun, dt)
    /\ regInfo' = Aged(regInfo, dt)
    /\ LET d == worker[w].d
           kept == EvictStale(processingFiles, sinceLastRun')
       IN IF oldLog[d] /\ d \notin kept
          THEN /\ processingFiles' = kept \cup {d}
               /\ worker' = [worker EXCEPT ![w].pc = "compress"]
          ELSE /\ processingFiles' = kept
               /\ worker' = [worker EXCEPT ![w].pc = "sweep"]
    /\ UNCHANGED << compVars, passVars, schedVars, fileVars, bufVars, sweepVars, appendVars, lockVars, liveVars >>
    /\ UNCHANGED << logDirs, lastGap, processingDirs, dirLocks, locked, pass, oldLog, gzCount,
                    calls, rollovers >>

\* processFile -> safeCompress: os.Stat, then gzipLogFile writes <name>.gz
CompressOld(w) ==
    /\ worker[w].pc = "compress"
    /\ LET d == worker[w].d
       IN IF oldLog[d]
          THEN /\ gzCount' = [gzCount EXCEPT ![d] = @ + 1]
               /\ worker' = [worker EXCEPT ![w].pc = "remove"]
               /\ processingFiles' = processingFiles
          ELSE /\ gzCount' = gzCount
               /\ processingFiles' = processingFiles \ {d}
               /\ worker' = [worker EXCEPT ![w].pc = "sweep"]
    /\ UNCHANGED << compVars, passVars, schedVars, fileVars, bufVars, sweepVars, appendVars, lockVars, liveVars >>
    /\ UNCHANGED << logDirs, lastGap, sinceLastRun, ticks, processingDirs, regInfo, dirLocks,
                    locked, pass, oldLog, calls, rollovers >>

\* safeCompress: os.Stat, os.Remove(path); the walk callback's deferred
\* delete(processingFiles, path)
RemoveOld(w) ==
    /\ worker[w].pc = "remove"
    /\ oldLog' = [oldLog EXCEPT ![worker[w].d] = FALSE]
    /\ processingFiles' = processingFiles \ {worker[w].d}
    /\ worker' = [worker EXCEPT ![w].pc = "sweep"]
    /\ UNCHANGED << compVars, passVars, schedVars, fileVars, bufVars, sweepVars, appendVars, lockVars, liveVars >>
    /\ UNCHANGED << logDirs, lastGap, sinceLastRun, ticks, processingDirs, regInfo, dirLocks,
                    locked, pass, gzCount, calls, rollovers >>

\* return cleanExpiredGzLogs(dir, compressMaxSave): the sweep of the directory
\* (what it removes is followed in SpecCompress)
SweepDir(w) ==
    /\ worker[w].pc = "sweep"
    /\ worker' = [worker EXCEPT ![w].pc = "unlock"]
    /\ UNCHANGED << compVars, passVars, schedVars, fileVars, bufVars, sweepVars, appendVars, lockVars, liveVars >>
    /\ UNCHANGED << logDirs, lastGap, sinceLastRun, ticks, processingDirs, regInfo,
                    processingFiles, dirLocks, locked, pass, oldLog, gzCount, calls,
                    rollovers >>

\* deferred dirLock.Unlock()
DirUnlock(w) ==
    /\ worker[w].pc = "unlock"
    /\ locked' = locked \ {worker[w].lock}
    /\ worker' = [worker EXCEPT ![w].pc = "unregister"]
    /\ UNCHANGED << compVars, passVars, schedVars, fileVars, bufVars, sweepVars, appendVars, lockVars, liveVars >>
    /\ UNCHANGED << logDirs, lastGap, sinceLastRun, ticks, processingDirs, regInfo,
                    processingFiles, dirLocks, pass, oldLog, gzCount, calls, rollovers >>

\* deferred delete(processingDirs, d) under processingMu, with d the absolute
\* path the goroutine was given; then the deferred wg.Done()
Unregister(w) ==
    /\ worker[w].pc = "unregister"
    /\ processingDirs' = processingDirs \ {worker[w].d}
    /\ regInfo' = [regInfo EXCEPT ![worker[w].d] = NoReg]
    /\ worker' = [worker EXCEPT ![w].pc = "done"]
    /\ UNCHANGED << compVars, passVars, schedVars, fileVars, bufVars, sweepVars, appendVars, lockVars, liveVars >>
    /\ UNCHANGED << logDirs, lastGap, sinceLastRun, ticks, processingFiles, dirLocks, locked,
                    pass, oldLog, gzCount, calls, rollovers >>

\* A panic inside processDirectory unwinds the worker goroutine: its deferred
\* calls run, and as no deferred call of the goroutine recovers, the runtime
\* ends the process. The recover of safeRunCompressionJob is deferred in the
\* calling goroutine and does not see it. What was in memory is gone.
WorkerPanic(w) ==
    /\ worker[w].pc \in {"walk", "compress", "remove", "sweep"}
    /\ pass' = [t \in Triggers |-> [IdlePass EXCEPT !.pc = "crashed"]]
    /\ worker' = [v \in WorkerIds |-> NoGoroutine]
    /\ processingDirs' = {}
    /\ regInfo' = [k \in Paths |-> NoReg]
    /\ processingFiles' = {}
    /\ dirLocks' = {}
    /\ locked' = {}
    /\ UNCHANGED << compVars, passVars, schedVars, fileVars, bufVars, sweepVars, appendVars, lockVars, liveVars >>
    /\ UNCHANGED << logDirs, lastGap, sinceLastRun, ticks, oldLog, gzCount, calls,
                    rollovers >>

NextGuard ==
    \/ \E d \in AbsDirs : Rollover(d)
    \/ \E t \in Triggers, dt \in {0} \cup TickSteps : Throttled(t, dt)
    \/ \E t \in Triggers, dt \in {0} \cup TickSteps : Accepted(t, dt)
    \/ \E t \in Triggers, dt \in {0} \cup TickSteps : RegistryScan(t, dt)
    \/ \E t \in Triggers : Launch(t)
    \/ \E t \in Triggers : WaitReturn(t)
    \/ \E w \in WorkerIds : DirLock(w)
    \/ \E w \in WorkerIds, dt \in {0} \cup TickSteps : WalkFile(w, dt)
    \/ \E w \in WorkerIds : CompressOld(w)
    \/ \E w \in WorkerIds : RemoveOld(w)
    \/ \E w \in WorkerIds : SweepDir(w)
    \/ \E w \in WorkerIds : DirUnlock(w)
    \/ \E w \in WorkerIds : Unregister(w)
    \/ \E w \in WorkerIds : WorkerPanic(w)

SpecGuard == InitGuard /\ [][NextGuard]_vars


\* ----------------------------------------------------------- SpecCompress
\* One goroutine works on one directory: the old dated log and its archive,
\* the current log and its indexed archives. Every file operation may fail,
\* and the process may be killed between two of them.

\* p000a: part_000 lines 1-411 with the scheduler of part_003
\* p000b: part_000 lines 413-819 with the scheduler of part_004
\* p001b: part_001 lines 305-549
Revisions == {"p000a", "p000b", "p001b"}

\* the indexed archives found in the directory at start
InitDirs == {{}, {1, 2}, {1, 2, 4, 5}}

RECURSIVE SetToSeq(_)
SetToSeq(S) ==
    IF S = {} THEN << >>
    ELSE LET m == CHOOSE x \in S : \A y \in S : x <= y
         IN << m >> \o SetToSeq(S \ {m})

InitCompress ==
    /\ logDirs = << "/logs" >>
    /\ GuardAtRest
    /\ IdleLive
    /\ IdleLock
    /\ IdleAppend
    /\ IdleSweep
    /\ IdleBuffer
    /\ rev \in Revisions
    /\ src = "intact"
    /\ tmp = [i \in Indices |-> "none"]
    /\ \E D \in InitDirs :
          /\ archive = [i \in Indices |-> IF i \in D THEN "complete" ELSE "none"]
          /\ created = SetToSeq(D)
    /\ oldSrc = "intact"
    /\ gz = "none"
    /\ cpc = "idle"
    /\ op = "none"
    /\ dst = 0
    /\ fault = "none"
    /\ ops = 0
    /\ expired = FALSE
    /\ attempts = 0
    /\ IdlePassVars
    /\ IdleSched
    /\ IdleFile

\* baseName: src itself in p000a (<x>.log.N.gz), src without its extension in
\* the other revisions (<x>.N.gz)
ArchiveForm(r) == IF r = "p000a" THEN "log" ELSE "bare"

\* regexp \.log\.(\d+)\.gz$ applied to an archive name of the given form
existingIndex(form, i) == IF form = "log" THEN i ELSE 0

\* filepath.Glob(baseName + ".*.gz")
existingFiles == {i \in Indices : archive[i] # "none"}

MaxOf(S) == IF S = {} THEN 0 ELSE CHOOSE m \in S : \A y \in S : y <= m

\* p000a, p000b: maxIndex over the globbed names, plus one
nextIndexMax(r) == MaxOf({existingIndex(ArchiveForm(r), i) : i \in existingFiles}) + 1

\* p001b: the first index whose name os.Stat does not find
nextIndexFree == CHOOSE i \in 1..(MaxIndex + 1) :
                    /\ i \notin existingFiles
                    /\ \A j \in 1..(i - 1) : j \in existingFiles

nextIndex(r) == IF r = "p001b" THEN nextIndexFree ELSE nextIndexMax(r)

\* the archive is written under its final name: gzipLogFileWithIndex of p001b,
\* and of p000b when forceCompressOvernightLog calls it
Direct == rev = "p001b" \/ (rev = "p000b" /\ op = "force")

\* checkAndCompressCurrentLog: for i := 0; i < 3; i++ in p000a and p000b, one
\* call of compressCurrentLogWithIndex in p001b
MaxAttempts(r) == IF r = "p001b" THEN 1 ELSE 3

\* the failed steps after which compressCurrentLogWithIndex returns an error:
\* p000a returns the error of the Close calls and never truncates, the other
\* revisions return the error of os.Truncate and only log a failed Close
ReturnedErrors(r) ==
    IF r = "p000a" THEN {"open", "create", "copy", "close", "rename"}
    ELSE {"open", "create", "copy", "truncate", "rename"}

\* checkAndCompressCurrentLog is inside its loop, in time.Sleep after an
\* attempt that returned an error
RetryPending ==
    /\ cpc = "idle"
    /\ op = "indexed"
    /\ attempts \in 1..(MaxAttempts(rev) - 1)
    /\ fault \in ReturnedErrors(rev)

CanStart == cpc = "idle" /\ ops < MaxOps /\ ~RetryPending

\* --------------------------------------------- safeCompress / gzipLogFile
\* processFile finds an old dated log; safeCompress: os.Stat finds it
safeCompress ==
    /\ CanStart
    /\ oldSrc = "intact"
    /\ cpc' = "gzOpen"
    /\ op' = "safeCompress"
    /\ fault' = "none"
    /\ ops' = ops + 1
    /\ UNCHANGED << rev, src, tmp, archive, oldSrc, gz, dst, created, expired, attempts >>
    /\ UNCHANGED << guardVars, passVars, schedVars, fileVars, bufVars, sweepVars, appendVars, lockVars, liveVars >>

\* gzipLogFile: os.Open(src)
GzOpen(ok) ==
    /\ cpc = "gzOpen"
    /\ cpc' = IF ok THEN "gzCreate" ELSE "idle"
    /\ fault' = IF ok THEN fault ELSE "open"
    /\ UNCHANGED << rev, src, tmp, archive, oldSrc, gz, op, dst, created, ops, expired, attempts >>
    /\ UNCHANGED << guardVars, passVars, schedVars, fileVars, bufVars, sweepVars, appendVars, lockVars, liveVars >>

\* gzipLogFile: os.Create(src + ".gz")
GzCreate(ok) ==
    /\ cpc = "gzCreate"
    /\ cpc' = IF ok THEN "gzCopy" ELSE "idle"
    /\ fault' = IF ok THEN fault ELSE "create"
    /\ gz' = IF ok THEN "partial" ELSE gz
    /\ UNCHANGED << rev, src, tmp, archive, oldSrc, op, dst, created, ops, expired, attempts >>
    /\ UNCHANGED << guardVars, passVars, schedVars, fileVars, bufVars, sweepVars, appendVars, lockVars, liveVars >>

\* gzipLogFile: io.Copy; on error the deferred Close calls end the stream
\* where it stopped and the error is returned
GzCopy(ok) ==
    /\ cpc = "gzCopy"
    /\ cpc' = IF ok THEN "gzClose" ELSE "idle"
    /\ fault' = IF ok THEN fault ELSE "copy"
    /\ UNCHANGED << rev, src, tmp, archive, oldSrc, gz, op, dst, created, ops, expired, attempts >>
    /\ UNCHANGED << guardVars, passVars, schedVars, fileVars, bufVars, sweepVars, appendVars, lockVars, liveVars >>

\* gzipLogFile: return nil, the deferred gzWriter.Close and outFile.Close
\* flush the rest; their errors are logged only
GzClose(ok) ==
    /\ cpc = "gzClose"
    /\ gz' = IF ok THEN "complete" ELSE "partial"
    /\ fault' = IF ok THEN fault ELSE "close"
    /\ cpc' = "gzRemove"
    /\ UNCHANGED << rev, src, tmp, archive, oldSrc, op, dst, created, ops, expired, attempts >>
    /\ UNCHANGED << guardVars, passVars, schedVars, fileVars, bufVars, sweepVars, appendVars, lockVars, liveVars >>

\* safeCompress: os.Stat(path), os.Remove(path)
SafeRemove(ok) ==
    /\ cpc = "gzRemove"
    /\ oldSrc' = IF ok THEN "absent" ELSE oldSrc
    /\ fault' = IF ok THEN fault ELSE "remove"
    /\ cpc' = "idle"
    /\ UNCHANGED << rev, src, tmp, archive, gz, op, dst, created, ops, expired, attempts >>
    /\ UNCHANGED << guardVars, passVars, schedVars, fileVars, bufVars, sweepVars, appendVars, lockVars, liveVars >>

\* ----------------------------------------- compressCurrentLogWithIndex
\* checkAndCompressCurrentLog finds the current log too large;
\* compressCurrentLogWithIndex chooses the index of the new archive
compressCurrentLogWithIndex ==
    /\ CanStart
    /\ src = "intact"
    /\ nextIndex(rev) <= MaxIndex
    /\ dst' = nextIndex(rev)
    /\ op' = "indexed"
    /\ cpc' = "wiOpen"
    /\ fault' = "none"
    /\ ops' = ops + 1
    /\ attempts' = 1
    /\ UNCHANGED << rev, src, tmp, archive, oldSrc, gz, created, expired >>
    /\ UNCHANGED << guardVars, passVars, schedVars, fileVars, bufVars, sweepVars, appendVars, lockVars, liveVars >>

\* checkAndCompressCurrentLog: the attempt returned an error, and after
\* time.Sleep the loop calls compressCurrentLogWithIndex again, without a new
\* look at the size of the log
checkAndCompressRetry ==
    /\ RetryPending
    /\ nextIndex(rev) <= MaxIndex
    /\ dst' = nextIndex(rev)
    /\ cpc' = "wiOpen"
    /\ fault' = "none"
    /\ attempts' = attempts + 1
    /\ UNCHANGED << rev, src, tmp, archive, oldSrc, gz, op, created, ops, expired >>
    /\ UNCHANGED << guardVars, passVars, schedVars, fileVars, bufVars, sweepVars, appendVars, lockVars, liveVars >>

\* forceCompressOvernightLog: with <base>.1.gz present the work is handed to
\* compressCurrentLogWithIndex, otherwise archive 1 is written
forceCompressOvernightLog ==
    /\ rev \in {"p000a", "p000b"}
    /\ CanStart
    /\ src # "absent"
    /\ IF archive[1] # "none"
       THEN /\ nextIndex(rev) <= MaxIndex
            /\ dst' = nextIndex(rev)
            /\ op' = "indexed"
       ELSE /\ dst' = 1
            /\ op' = "force"
    /\ cpc' = "wiOpen"
    /\ fault' = "none"
    /\ ops' = ops + 1
    /\ attempts' = 0
    /\ UNCHANGED << rev, src, tmp, archive, oldSrc, gz, created, expired >>
    /\ UNCHANGED << guardVars, passVars, schedVars, fileVars, bufVars, sweepVars, appendVars, lockVars, liveVars >>

\* gzipLogFileWithIndex: os.Open(src)
WiOpen(ok) ==
    /\ cpc = "wiOpen"
    /\ cpc' = IF ok THEN "wiCreate" ELSE "idle"
    /\ fault' = IF ok THEN fault ELSE "open"
    /\ UNCHANGED << rev, src, tmp, archive, oldSrc, gz, op, dst, created, ops, expired, attempts >>
    /\ UNCHANGED << guardVars, passVars, schedVars, fileVars, bufVars, sweepVars, appendVars, lockVars, liveVars >>

\* gzipLogFileWithIndex: os.Create of the temporary file, or of the archive
\* itself where the revision writes it directly
WiCreate(ok) ==
    /\ cpc = "wiCreate"
    /\ cpc' = IF ok THEN "wiCopy" ELSE "idle"
    /\ fault' = IF ok THEN fault ELSE "create"
    /\ IF ok /\ Direct
       THEN /\ archive' = [archive EXCEPT ![dst] = "partial"]
            /\ created' = Append(created, dst)
            /\ tmp' = tmp
       ELSE /\ tmp' = IF ok THEN [tmp EXCEPT ![dst] = "partial"] ELSE tmp
            /\ UNCHANGED << archive, created >>
    /\ UNCHANGED << rev, src, oldSrc, gz, op, dst, ops, expired, attempts >>
    /\ UNCHANGED << guardVars, passVars, schedVars, fileVars, bufVars, sweepVars, appendVars, lockVars, liveVars >>

\* gzipLogFileWithIndex: io.Copy; on error the deferred os.Remove takes the
\* temporary file away, a directly written archive stays as it is
WiCopy(ok) ==
    /\ cpc = "wiCopy"
    /\ cpc' = IF ~ok THEN "idle" ELSE IF rev = "p000a" THEN "wiClose" ELSE "wiTruncate"
    /\ fault' = IF ok THEN fault ELSE "copy"
    /\ tmp' = IF ok THEN tmp ELSE [tmp EXCEPT ![dst] = "none"]
    /\ UNCHANGED << rev, src, archive, oldSrc, gz, op, dst, created, ops, expired, attempts >>
    /\ UNCHANGED << guardVars, passVars, schedVars, fileVars, bufVars, sweepVars, appendVars, lockVars, liveVars >>

\* gzipLogFileWithIndex of p000b and p001b: os.Truncate(src, 0); on error the
\* deferred Close calls finish the file, and atomicGzipWithIndex removes the
\* temporary file
WiTruncate(ok) ==
    /\ cpc = "wiTruncate"
    /\ cpc' = IF ok THEN "wiClose" ELSE "idle"
    /\ fault' = IF ok THEN fault ELSE "truncate"
    /\ src' = IF ok THEN "truncated" ELSE src
    /\ tmp' = IF ok THEN tmp ELSE [tmp EXCEPT ![dst] = "none"]
    /\ archive' = IF ~ok /\ Direct THEN [archive EXCEPT ![dst] = "complete"] ELSE archive
    /\ UNCHANGED << rev, oldSrc, gz, op, dst, created, ops, expired, attempts >>
    /\ UNCHANGED << guardVars, passVars, schedVars, fileVars, bufVars, sweepVars, appendVars, lockVars, liveVars >>

\* p000a: gzWriter.Close and outFile.Close, an error is returned and the
\* temporary file removed. p000b, p001b: the deferred Close calls after
\* return nil, an error is logged only.
WiClose(ok) ==
    /\ cpc = "wiClose"
    /\ fault' = IF ok THEN fault ELSE "close"
    /\ IF rev = "p000a"
       THEN /\ tmp' = [tmp EXCEPT ![dst] = IF ok THEN "complete" ELSE "none"]
            /\ cpc' = IF ok THEN "wiRename" ELSE "idle"
            /\ archive' = archive
       ELSE IF Direct
       THEN /\ archive' = [archive EXCEPT ![dst] = IF ok THEN "complete" ELSE "partial"]
            /\ cpc' = "idle"
            /\ tmp' = tmp
       ELSE /\ tmp' = [tmp EXCEPT ![dst] = IF ok THEN "complete" ELSE "partial"]
            /\ cpc' = "wiRename"
            /\ archive' = archive
    /\ UNCHANGED << rev, src, oldSrc, gz, op, dst, created, ops, expired, attempts >>
    /\ UNCHANGED << guardVars, passVars, schedVars, fileVars, bufVars, sweepVars, appendVars, lockVars, liveVars >>

\* os.Rename(tmpFile, dst), which replaces a file already at dst; on error
\* the deferred os.Remove takes the temporary file away
WiRename(ok) ==
    /\ cpc = "wiRename"
    /\ fault' = IF ok THEN fault ELSE "rename"
    /\ tmp' = [tmp EXCEPT ![dst] = "none"]
    /\ archive' = IF ok THEN [archive EXCEPT ![dst] = tmp[dst]] ELSE archive
    /\ created' = IF ok THEN Append(created, dst) ELSE created
    /\ cpc' = IF ok /\ rev = "p000a" /\ op = "force" THEN "forceRemove" ELSE "idle"
    /\ UNCHANGED << rev, src, oldSrc, gz, op, dst, ops, expired, attempts >>
    /\ UNCHANGED << guardVars, passVars, schedVars, fileVars, bufVars, sweepVars, appendVars, lockVars, liveVars >>

\* forceCompressOvernightLog of part_003: return os.Remove(src)
ForceRemove(ok) ==
    /\ cpc = "forceRemove"
    /\ src' = IF ok THEN "absent" ELSE src
    /\ fault' = IF ok THEN fault ELSE "remove"
    /\ cpc' = "idle"
    /\ UNCHANGED << rev, tmp, archive, oldSrc, gz, op, dst, created, ops, expired, attempts >>
    /\ UNCHANGED << guardVars, passVars, schedVars, fileVars, bufVars, sweepVars, appendVars, lockVars, liveVars >>

\* ------------------------------------------------------ the environment
\* the process is killed inside an operation and started again
Crash ==
    /\ cpc # "idle"
    /\ cpc' = "idle"
    /\ fault' = "crash"
    /\ UNCHANGED << rev, src, tmp, archive, oldSrc, gz, op, dst, created, ops, expired, attempts >>
    /\ UNCHANGED << guardVars, passVars, schedVars, fileVars, bufVars, sweepVars, appendVars, lockVars, liveVars >>

\* the logger writes into the emptied current log
LoggerWrites ==
    /\ cpc = "idle"
    /\ src = "truncated"
    /\ src' = "intact"
    /\ UNCHANGED << rev, tmp, archive, oldSrc, gz, cpc, op, dst, fault, created, ops,
                    expired, attempts >>
    /\ UNCHANGED << guardVars, passVars, schedVars, fileVars, bufVars, sweepVars, appendVars, lockVars, liveVars >>

\* time passes: the dates in the file names are now before the cutoff
RetentionElapses ==
    /\ cpc = "idle"
    /\ ~expired
    /\ expired' = TRUE
    /\ UNCHANGED << rev, src, tmp, archive, oldSrc, gz, cpc, op, dst, fault, created,
                    ops, attempts >>
    /\ UNCHANGED << guardVars, passVars, schedVars, fileVars, bufVars, sweepVars, appendVars, lockVars, liveVars >>

\* cleanExpiredGzLogs. p000a takes every dated file whose extension is .gz and
\* goes on after a failed os.Remove (keep: the archive it failed on, 0 for
\* none); the other revisions take the names ending in .log.gz only.
cleanExpiredGzLogs(keep) ==
    /\ cpc = "idle"
    /\ expired
    /\ keep \in {0} \cup existingFiles
    /\ gz # "none" \/ (rev = "p000a" /\ existingFiles # {})
    /\ gz' = "none"
    /\ archive' = [i \in Indices |->
                     IF ArchiveForm(rev) = "log" /\ i # keep THEN "none" ELSE archive[i]]
    /\ UNCHANGED << rev, src, tmp, oldSrc, cpc, op, dst, fault, created, ops, expired, attempts >>
    /\ UNCHANGED << guardVars, passVars, schedVars, fileVars, bufVars, sweepVars, appendVars, lockVars, liveVars >>

NextCompress ==
    \/ safeCompress
    \/ \E ok \in BOOLEAN : GzOpen(ok)
    \/ \E ok \in BOOLEAN : GzCreate(ok)
    \/ \E ok \in BOOLEAN : GzCopy(ok)
    \/ \E ok \in BOOLEAN : GzClose(ok)
    \/ \E ok \in BOOLEAN : SafeRemove(ok)
    \/ compressCurrentLogWithIndex
    \/ checkAndCompressRetry
    \/ forceCompressOvernightLog
    \/ \E ok \in BOOLEAN : WiOpen(ok)
    \/ \E ok \in BOOLEAN : WiCreate(ok)
    \/ \E ok \in BOOLEAN : WiCopy(ok)
    \/ \E ok \in BOOLEAN : WiTruncate(ok)
    \/ \E ok \in BOOLEAN : WiClose(ok)
    \/ \E ok \in BOOLEAN : WiRename(ok)
    \/ \E ok \in BOOLEAN : ForceRemove(ok)
    \/ Crash
    \/ LoggerWrites
    \/ RetentionElapses
    \/ \E keep \in {0} \cup Indices : cleanExpiredGzLogs(keep)

SpecCompress == InitCompress /\ [][NextCompress]_vars

\* ---------------------------------------------------------------- SpecPass
\* One worker passes over one directory: the walk that compresses, then
\* cleanExpiredGzLogs. The directory holds, under the old date,
\*   bare1  <base>.1.gz        log   <base>.log
\*   log1   <base>.log.1.gz    gz    <base>.log.gz
\* and under the date of today
\*   cur    the current log    carch its indexed archives (their number).
\* The file operations succeed here (SpecCompress follows their failures),
\* except os.Remove on a file another process holds and the errors of the
\* sweep's walk. Times are in half days from the midnight of today; the
\* zone is UTC.
Archives == {"bare1", "log1", "gz", "carch"}

\* filepath.Walk visits the names in lexical order
WalkOrder == << "bare1", "log", "log1", "gz", "cur", "carch" >>

Has(F, f) ==
    IF f = "cur" THEN F.cur # "absent" ELSE IF f = "carch" THEN F.carch > 0 ELSE F[f]

\* os.Remove(path), and a path that vanished
Without(F, f) ==
    IF f = "cur" THEN [F EXCEPT !.cur = "absent"]
    ELSE IF f = "carch" THEN [F EXCEPT !.carch = 0]
    ELSE [F EXCEPT ![f] = FALSE]

\* parseDateFromFileName / time.Parse("20060102", ...): the midnight of the
\* date in the name
FileTime(f) == 2 * (IF f \in {"cur", "carch"} THEN 0 ELSE oldDate)

\* a comparison that takes the boundary too
BeforeOrEqual(a, b) == a <= b

\* time.Time.Before
Before(a, b) == a < b

\* cutoffDate := time.Now().Add(-maxSaveTime)
cutoffDate == halfDay - retention

\* fileDate.Before(cutoffDate)
isGzExpired(f) == Before(FileTime(f), cutoffDate)

\* isOldLogFile: the date in the name is before the midnight of today
isOldLogFile(f) == Before(FileTime(f), 0)

\* the names the sweep takes for archives: p000a every dated name with the
\* extension .gz, the other revisions gzExtRegex \.log\.gz$
SweepMatches(r, f) == IF r = "p000a" THEN f \in Archives ELSE f = "gz"

\* isGzExpired(path, max) && !isFileLocked(path) in the sweep of p001b only
SweepChecksLock(r) == r = "p001b"

\* the revisions whose sweep callback begins with if err != nil { return err }
SweepReturnsWalkErr(r) == r \in {"p000a", "p001b"}

\* p000a logs a failed os.Remove and goes on, the others return its error
SweepReturnsRemoveErr(r) == r # "p000a"

\* the revisions that keep the map processingFiles
HasRegistry(r) == r \in {"p000a", "p000b"}

InitFiles ==
    { [bare1 |-> i, log |-> l, log1 |-> i, gz |-> g, cur |-> c, carch |-> 0] :
        i \in BOOLEAN, l \in BOOLEAN, g \in BOOLEAN, c \in {"absent", "small", "big"} }

InitPass ==
    /\ logDirs = << "/logs" >>
    /\ GuardAtRest
    /\ IdleLive
    /\ IdleLock
    /\ IdleAppend
    /\ IdleSweep
    /\ IdleBuffer
    /\ rev \in Revisions
    /\ CompressAtRest
    /\ IdleSched
    /\ IdleFile
    /\ halfDay \in {0, 1}
    /\ retention \in 0..MaxRetention
    /\ oldDate \in {-LongAgo} \cup ((-MaxAge)..(-1))
    /\ files \in InitFiles
    /\ registered \in IF HasRegistry(rev) THEN {{}, {"gz"}} ELSE {{}}
    /\ osLocked \in {{}, {"gz"}}
    /\ registered = {} \/ osLocked = {}
    /\ \A f \in registered \cup osLocked : Has(files, f)
    /\ ppc = "idle"
    /\ names = << >>
    /\ walkErr = "none"
    /\ sweepErr = "none"
    /\ errors = 0
    /\ hist = << files >>
    /\ walkRet = "none"
    /\ sweeps = 0

\* processFile on the old log: safeCompress writes <name>.gz and removes the
\* log, unless the path is in processingFiles or isFileLocked
AfterOldLog(F) ==
    IF F.log /\ isOldLogFile("log") /\ "log" \notin registered \cup osLocked
    THEN [F EXCEPT !.log = FALSE, !.gz = TRUE]
    ELSE F

\* processFile on the current log: checkAndCompressCurrentLog writes the next
\* indexed archive of an oversized log; p000a leaves the log as it is, the
\* other revisions truncate it
AfterCurrentLog(F) ==
    IF F.cur = "big" /\ ~isOldLogFile("cur")
    THEN [F EXCEPT !.carch = @ + 1, !.cur = IF rev = "p000a" THEN "big" ELSE "small"]
    ELSE F

\* processDirectory of part_000 returns the error of the compression walk
\* before it comes to the sweep; the oldest revision logs it and goes on
SkipsSweep(r) == r \in {"p000a", "p000b"}

\* processDirectory: the walk over the directory, then cleanExpiredGzLogs
\* begins its own walk and reads the names of the directory. e is an error
\* other than os.IsNotExist that filepath.Walk hands to the callback of the
\* compression walk: none, one at the first path, or one at the last (the
\* callback returns it and the walk ends there).
processDirectory(e) ==
    /\ ppc = "idle"
    /\ Len(hist) <= MaxPasses
    /\ e # "none" => errors < MaxWalkErrors
    /\ errors' = IF e = "none" THEN errors ELSE errors + 1
    /\ files' = IF e = "early" THEN files ELSE AfterCurrentLog(AfterOldLog(files))
    /\ walkRet' = IF e = "none" THEN "ok" ELSE "err"
    /\ walkErr' = "none"
    /\ sweepErr' = "none"
    /\ IF e # "none" /\ SkipsSweep(rev)
       THEN /\ ppc' = "idle"
            /\ sweeps' = 0
            /\ names' = << >>
            /\ hist' = Append(hist, files')
       ELSE /\ ppc' = "sweep"
            /\ sweeps' = 1
            /\ names' = SelectSeq(WalkOrder, LAMBDA f : Has(files', f))
            /\ hist' = hist
    /\ UNCHANGED << halfDay, retention, oldDate, registered, osLocked >>
    /\ UNCHANGED << guardVars, compVars, schedVars, fileVars, bufVars, sweepVars, appendVars, lockVars, liveVars >>

\* cleanExpiredGzLogs: the callback of filepath.Walk on the next name. e is
\* the error the walk hands over: none, the path vanished after the names were
\* read (os.IsNotExist), or another error of lstat. ok: os.Remove succeeds.
SweepPath(e, ok) ==
    /\ ppc = "sweep"
    /\ names # << >>
    /\ e # "none" => errors < MaxWalkErrors
    /\ ok \/ Head(names) \in osLocked \/ e = "other"
    /\ errors' = IF e = "none" THEN errors ELSE errors + 1
    /\ walkErr' = e
    /\ LET f == Head(names)
           found == IF e = "vanished" THEN Without(files, f) ELSE files
           wants == /\ SweepMatches(rev, f)
                    /\ isGzExpired(f)
                    /\ SweepChecksLock(rev) => f \notin osLocked
       IN IF e # "none" /\ SweepReturnsWalkErr(rev)
          THEN /\ files' = found
               /\ sweepErr' = e
               /\ names' = << >>
          ELSE IF wants /\ (e = "vanished" \/ ~ok)
          THEN /\ files' = found
               /\ sweepErr' = IF SweepReturnsRemoveErr(rev) THEN "remove" ELSE sweepErr
               /\ names' = IF SweepReturnsRemoveErr(rev) THEN << >> ELSE Tail(names)
          ELSE /\ files' = IF wants THEN Without(found, f) ELSE found
               /\ sweepErr' = sweepErr
               /\ names' = Tail(names)
    /\ UNCHANGED << halfDay, retention, oldDate, registered, osLocked, ppc, hist,
                    walkRet, sweeps >>
    /\ UNCHANGED << guardVars, compVars, schedVars, fileVars, bufVars, sweepVars, appendVars, lockVars, liveVars >>

\* cleanExpiredGzLogs returns, and processDirectory with it
SweepDone ==
    /\ ppc = "sweep"
    /\ names = << >>
    /\ ppc' = "idle"
    /\ sweepErr' = IF sweepErr = "none" THEN "ok" ELSE sweepErr
    /\ hist' = Append(hist, files)
    /\ UNCHANGED << halfDay, retention, oldDate, files, registered, osLocked, names,
                    walkErr, errors, walkRet, sweeps >>
    /\ UNCHANGED << guardVars, compVars, schedVars, fileVars, bufVars, sweepVars, appendVars, lockVars, liveVars >>

NextPass ==
    \/ \E e \in {"none", "early", "late"} : processDirectory(e)
    \/ \E e \in {"none", "vanished", "other"}, ok \in BOOLEAN : SweepPath(e, ok)
    \/ SweepDone

SpecPass == InitPass /\ [][NextPass]_vars

\* ----------------------------------------------------------------- SpecJob
\* runCompressionJob of file_operations.go: no registry and no lock per
\* directory; the whole job runs with the global mutex fileLock held. The
\* daily trigger (trigger 1) runs processOvernightLogs after its pass, also
\* under fileLock.
fileLock == << "fileLock", NoWorker >>

\* a call of runCompressionJob: fileLock.Lock() is next
JobCall(t) ==
    /\ CanCall(t)
    /\ calls' = calls + 1
    /\ pass' = [pass EXCEPT ![t] = [IdlePass EXCEPT !.pc = "filelock"]]
    /\ UNCHANGED << compVars, passVars, schedVars, fileVars, bufVars, sweepVars, appendVars, lockVars, liveVars >>
    /\ UNCHANGED << logDirs, lastGap, sinceLastRun, ticks, processingDirs, regInfo,
                    processingFiles, dirLocks, locked, worker, oldLog, gzCount, rollovers >>

\* fileLock.Lock() returns; the loop over logDirs: filepath.Abs, os.Stat,
\* go func(absDir) for every entry that is a directory
JobLaunch(t) ==
    /\ pass[t].pc = "filelock"
    /\ fileLock \notin locked
    /\ locked' = locked \cup {fileLock}
    /\ worker' = [w \in WorkerIds |->
                    IF w[1] = t /\ w[2] <= Len(logDirs) /\ IsDir(Abs(logDirs[w[2]]))
                    THEN [pc |-> "walk", d |-> Abs(logDirs[w[2]]), lock |-> << "", NoWorker >>]
                    ELSE worker[w]]
    /\ pass' = [pass EXCEPT ![t].pc = "wait", ![t].dirsToProcess = logDirs]
    /\ UNCHANGED << compVars, passVars, schedVars, fileVars, bufVars, sweepVars, appendVars, lockVars, liveVars >>
    /\ UNCHANGED << logDirs, lastGap, sinceLastRun, ticks, processingDirs, regInfo,
                    processingFiles, dirLocks, oldLog, gzCount, calls, rollovers >>

\* the goroutine: filepath.Walk, safeCompress on the old log
JobWalk(w) ==
    /\ worker[w].pc = "walk"
    /\ fileLock \in locked
    /\ oldLog' = [oldLog EXCEPT ![worker[w].d] = FALSE]
    /\ gzCount' = [gzCount EXCEPT ![worker[w].d] = IF oldLog[worker[w].d] THEN @ + 1 ELSE @]
    /\ worker' = [worker EXCEPT ![w].pc = "sweep"]
    /\ UNCHANGED << compVars, passVars, schedVars, fileVars, bufVars, sweepVars, appendVars, lockVars, liveVars >>
    /\ UNCHANGED << logDirs, lastGap, sinceLastRun, ticks, processingDirs, regInfo,
                    processingFiles, dirLocks, locked, pass, calls, rollovers >>

\* the goroutine: cleanExpiredGzLogs, then the deferred wg.Done()
JobSweep(w) ==
    /\ worker[w].pc = "sweep"
    /\ fileLock \in locked
    /\ worker' = [worker EXCEPT ![w].pc = "done"]
    /\ UNCHANGED << compVars, passVars, schedVars, fileVars, bufVars, sweepVars, appendVars, lockVars, liveVars >>
    /\ UNCHANGED << logDirs, lastGap, sinceLastRun, ticks, processingDirs, regInfo,
                    processingFiles, dirLocks, locked, pass, oldLog, gzCount, calls,
                    rollovers >>

\* wg.Wait() returns, the deferred fileLock.Unlock()
JobReturn(t) ==
    /\ pass[t].pc = "wait"
    /\ fileLock \in locked
    /\ \A i \in 1..MaxListLen : worker[<< t, i >>].pc \in {"none", "done"}
    /\ locked' = locked \ {fileLock}
    /\ worker' = [w \in WorkerIds |-> IF w[1] = t THEN NoGoroutine ELSE worker[w]]
    /\ pass' = [pass EXCEPT ![t].pc = IF t = 1 THEN "daily" ELSE "returned"]
    /\ UNCHANGED << compVars, passVars, schedVars, fileVars, bufVars, sweepVars, appendVars, lockVars, liveVars >>
    /\ UNCHANGED << logDirs, lastGap, sinceLastRun, ticks, processingDirs, regInfo,
                    processingFiles, dirLocks, oldLog, gzCount, calls, rollovers >>

\* scheduleDailyJob: fileLock.Lock() before processOvernightLogs
OvernightBegin(t) ==
    /\ pass[t].pc = "daily"
    /\ fileLock \notin locked
    /\ locked' = locked \cup {fileLock}
    /\ pass' = [pass EXCEPT ![t].pc = "overnight"]
    /\ UNCHANGED << compVars, passVars, schedVars, fileVars, bufVars, sweepVars, appendVars, lockVars, liveVars >>
    /\ UNCHANGED << logDirs, lastGap, sinceLastRun, ticks, processingDirs, regInfo,
                    processingFiles, dirLocks, worker, oldLog, gzCount, calls, rollovers >>

\* processOvernightLogs has walked the directories one after the other;
\* fileLock.Unlock()
OvernightEnd(t) ==
    /\ pass[t].pc = "overnight"
    /\ locked' = locked \ {fileLock}
    /\ pass' = [pass EXCEPT ![t].pc = "returned"]
    /\ UNCHANGED << compVars, passVars, schedVars, fileVars, bufVars, sweepVars, appendVars, lockVars, liveVars >>
    /\ UNCHANGED << logDirs, lastGap, sinceLastRun, ticks, processingDirs, regInfo,
                    processingFiles, dirLocks, worker, oldLog, gzCount, calls, rollovers >>

NextJob ==
    \/ \E t \in Triggers : JobCall(t)
    \/ \E t \in Triggers : JobLaunch(t)
    \/ \E w \in WorkerIds : JobWalk(w)
    \/ \E w \in WorkerIds : JobSweep(w)
    \/ \E t \in Triggers : JobReturn(t)
    \/ \E t \in Triggers : OvernightBegin(t)
    \/ \E t \in Triggers : OvernightEnd(t)

SpecJob == InitGuard /\ [][NextJob]_vars

\* --------------------------------------------------------------- SpecDaily
\* part_003 with runCompressionJob of part_000: trigger 1 is the goroutine of
\* scheduleDailyJob, which after safeRunCompressionJob has returned (accepted
\* or not) runs processOvernightLogs with fileLock held; trigger 2 is the
\* goroutine of the ticker. The workers of a pass take the mutex of their
\* directory and never fileLock.
InitDaily ==
    /\ InitGuard
    /\ logDirs \in { << "/logs" >>, << "/logs", "/var" >> }

\* scheduleDailyJob: safeRunCompressionJob has returned; fileLock.Lock(), and
\* processOvernightLogs begins to walk the directories of the list
OvernightStart(t) ==
    /\ t = 1
    /\ pass[t].pc \in {"rejected", "returned"}
    /\ fileLock \notin locked
    /\ locked' = locked \cup {fileLock}
    /\ pass' = [pass EXCEPT ![t].pc = "overnight"]
    /\ UNCHANGED << compVars, passVars, schedVars, fileVars, bufVars, sweepVars, appendVars, lockVars, liveVars >>
    /\ UNCHANGED << logDirs, lastGap, sinceLastRun, ticks, processingDirs, regInfo,
                    processingFiles, dirLocks, worker, oldLog, gzCount, calls, rollovers >>

\* processOvernightLogs has returned; fileLock.Unlock(), and the loop of
\* scheduleDailyJob waits for the next day
OvernightDone(t) ==
    /\ pass[t].pc = "overnight"
    /\ locked' = locked \ {fileLock}
    /\ pass' = [pass EXCEPT ![t] = IdlePass]
    /\ UNCHANGED << compVars, passVars, schedVars, fileVars, bufVars, sweepVars, appendVars, lockVars, liveVars >>
    /\ UNCHANGED << logDirs, lastGap, sinceLastRun, ticks, processingDirs, regInfo,
                    processingFiles, dirLocks, worker, oldLog, gzCount, calls, rollovers >>

NextDaily ==
    \/ \E t \in Triggers, dt \in {0} \cup TickSteps : Throttled(t, dt)
    \/ \E t \in Triggers, dt \in {0} \cup TickSteps : Accepted(t, dt)
    \/ \E t \in Triggers, dt \in {0} \cup TickSteps : RegistryScan(t, dt)
    \/ \E t \in Triggers : Launch(t)
    \/ \E t \in Triggers : WaitReturn(t)
    \/ \E w \in WorkerIds : DirLock(w)
    \/ \E w \in WorkerIds, dt \in {0} \cup TickSteps : WalkFile(w, dt)
    \/ \E w \in WorkerIds : CompressOld(w)
    \/ \E w \in WorkerIds : RemoveOld(w)
    \/ \E w \in WorkerIds : SweepDir(w)
    \/ \E w \in WorkerIds : DirUnlock(w)
    \/ \E w \in WorkerIds : Unregister(w)
    \/ \E t \in Triggers : OvernightStart(t)
    \/ \E t \in Triggers : OvernightDone(t)

SpecDaily == InitDaily /\ [][NextDaily]_vars

\* ------------------------------------------------------------ SpecSchedule
\* The daily trigger. Instants count clock ticks from the local midnight of
\* day 0, SubSecond ticks to the second. In the zone "dst" the wall clock goes
\* forward one hour at 02:00 of day 1.
SecondLen == SubSecond
HourLen == 60 * 60 * SecondLen
DayLen == 24 * HourLen
DstAt == DayLen + 2 * HourLen
Horizon == MaxDays * DayLen

Scheds == {"part_003", "part_004", "logger"}
Zones == {"fixed", "dst"}

\* StartLogCompression(hour, minute, second, ...): 01:00:00, 12:30:00, 23:59:59
Targets == {HourLen, 12 * HourLen + 30 * 60 * SecondLen, DayLen - SecondLen}

\* Time.In(loc): the wall clock of an instant
Wall(z, t) == IF z = "dst" /\ t >= DstAt THEN t + HourLen ELSE t

\* time.Date(year, month, day, hour, min, sec, 0, loc): the instant that
\* shows the wall clock w (no target lies in the hour that is skipped)
Instant(z, w) == IF z = "dst" /\ w >= DstAt + HourLen THEN w - HourLen ELSE w

DayOf(w) == w \div DayLen
TimeOfDay(w) == w % DayLen
HourOf(w) == TimeOfDay(w) \div HourLen

\* Time.Truncate(time.Second)
Truncate(t) == t - (t % SecondLen)

\* time.Date(now.Year(), now.Month(), now.Day(), targetHour, targetMin, targetSec, 0, now.Location())
TodayAt(z, tg, now) == Instant(z, DayOf(Wall(z, now)) * DayLen + tg)

\* nextRunTime: part_003 reads time.Now() and adds 24 hours to an occurrence
\* that is before it; part_004 reads time.Now().Truncate(time.Second) and adds
\* a calendar day
nextRunTime(s, z, tg, now) ==
    IF s = "part_003"
    THEN IF Before(TodayAt(z, tg, now), now)
         THEN TodayAt(z, tg, now) + 24 * HourLen
         ELSE TodayAt(z, tg, now)
    ELSE IF Before(TodayAt(z, tg, Truncate(now)), Truncate(now))
         THEN Instant(z, Wall(z, TodayAt(z, tg, Truncate(now))) + DayLen)
         ELSE TodayAt(z, tg, Truncate(now))

\* isTargetHour(t, targetHour): t.Hour() == targetHour
isTargetHour(t, targetHour) == HourOf(Wall(zone, t)) = targetHour

\* the logs of yesterday a day can begin with: none, the log, the log next to
\* its archive <name>.1.gz
YesterdayLogs == {"absent", "log", "log1"}

\* the logger begins a new file at midnight: past it, the log of yesterday is
\* another one
Rotated(c, y) == IF DayOf(Wall(zone, c)) # DayOf(Wall(zone, clock)) THEN y ELSE ylog

\* the normal pass on the log of yesterday: safeCompress writes <name>.gz and
\* removes the log
AfterPass(y, takes) == IF takes /\ y \in {"log", "log1"} THEN "gz" ELSE y

\* processOvernightLogs / forceCompressOvernightLog on the log of yesterday.
\* With <name>.1.gz there: compressCurrentLogWithIndex, which in part_000
\* (first revision) leaves the log as it is and in the second truncates it.
\* Without: gzipLogFileWithIndex, then os.Remove in part_003; in part_004
\* gzipLogFileWithIndex itself truncates the log.
processOvernightLogs(s, y) ==
    IF y = "log1" THEN IF s = "part_003" THEN "copied" ELSE "emptied"
    ELSE IF y = "log" THEN IF s = "part_003" THEN "indexed" ELSE "emptied"
    ELSE y

InitSchedule ==
    /\ logDirs = << "/logs" >>
    /\ GuardAtRest
    /\ IdleLive
    /\ IdleLock
    /\ IdleAppend
    /\ IdleSweep
    /\ IdleBuffer
    /\ IdleCompress
    /\ IdlePassVars
    /\ IdleFile
    /\ sched \in Scheds
    /\ zone \in Zones
    /\ target \in Targets
    /\ clock \in {0, target - 1, target + 1, DayLen + target + 1}
    /\ calledAt = clock
    /\ next = IF sched = "logger" THEN clock + HourLen ELSE clock
    /\ spc = IF sched = "logger" THEN "ticker" ELSE "compute"
    /\ fires = 0
    /\ jobs = 0
    /\ ylog \in YesterdayLogs

\* scheduleDailyJob: next := nextRunTime(hour, minute, second)
ComputeNext ==
    /\ sched # "logger"
    /\ spc = "compute"
    /\ calledAt' = clock
    /\ next' = nextRunTime(sched, zone, target, clock)
    /\ spc' = "wait"
    /\ UNCHANGED << sched, zone, target, clock, fires, jobs, ylog >>
    /\ UNCHANGED << guardVars, compVars, passVars, fileVars, bufVars, sweepVars, appendVars, lockVars, liveVars >>

\* <-timer.C: the goroutine goes on some time after the instant the timer was
\* set to, and at once when that instant has passed already
TimerFires(late, y) ==
    /\ sched # "logger"
    /\ spc = "wait"
    /\ next <= Horizon
    /\ clock' = (IF clock > next THEN clock ELSE next) + late
    /\ ylog' = Rotated(clock', y)
    /\ fires' = fires + 1
    /\ spc' = "fired"
    /\ UNCHANGED << sched, zone, target, calledAt, next, jobs >>
    /\ UNCHANGED << guardVars, compVars, passVars, fileVars, bufVars, sweepVars, appendVars, lockVars, liveVars >>

\* scheduleDailyJob after the timer: part_003 behind isTargetHour(next, 1),
\* part_004 always; safeRunCompressionJob, then processOvernightLogs
DailyFire(dur, takes) ==
    /\ sched # "logger"
    /\ spc = "fired"
    /\ IF sched = "part_004" \/ isTargetHour(next, 1)
       THEN /\ jobs' = jobs + 1
            /\ ylog' = processOvernightLogs(sched, AfterPass(ylog, takes))
            /\ clock' = clock + dur
       ELSE /\ dur = 0
            /\ ~takes
            /\ UNCHANGED << jobs, ylog, clock >>
    /\ spc' = "compute"
    /\ UNCHANGED << sched, zone, target, calledAt, next, fires >>
    /\ UNCHANGED << guardVars, compVars, passVars, fileVars, bufVars, sweepVars, appendVars, lockVars, liveVars >>

\* the goroutine of StartLogCompression that runs the pass every
\* sizeCheckInterval
SizeCheck ==
    /\ sched # "logger"
    /\ ylog \in {"log", "log1"}
    /\ ylog' = AfterPass(ylog, TRUE)
    /\ UNCHANGED << sched, zone, target, clock, calledAt, next, spc, fires, jobs >>
    /\ UNCHANGED << guardVars, compVars, passVars, fileVars, bufVars, sweepVars, appendVars, lockVars, liveVars >>

\* logger.go StartLogCompression: a tick of time.NewTicker(1 * time.Hour);
\* ticks the goroutine did not wait for are dropped
Tick(late, y) ==
    /\ sched = "logger"
    /\ spc = "ticker"
    /\ next <= Horizon
    /\ clock' = (IF clock > next THEN clock ELSE next) + late
    /\ next' = next + ((clock' - next) \div HourLen + 1) * HourLen
    /\ ylog' = Rotated(clock', y)
    /\ IF HourOf(Wall(zone, clock')) = HourOf(target)
       THEN spc' = "fired" /\ fires' = fires + 1
       ELSE UNCHANGED << spc, fires >>
    /\ UNCHANGED << sched, zone, target, calledAt, jobs >>
    /\ UNCHANGED << guardVars, compVars, passVars, fileVars, bufVars, sweepVars, appendVars, lockVars, liveVars >>

\* logger.go: runCompressionJob, then time.Sleep(23 * time.Hour)
TickJob(dur, takes, y) ==
    /\ sched = "logger"
    /\ spc = "fired"
    /\ jobs' = jobs + 1
    /\ clock' = clock + dur + 23 * HourLen
    /\ ylog' = IF DayOf(Wall(zone, clock')) # DayOf(Wall(zone, clock))
               THEN y
               ELSE AfterPass(ylog, takes)
    /\ spc' = "ticker"
    /\ UNCHANGED << sched, zone, target, calledAt, next, fires >>
    /\ UNCHANGED << guardVars, compVars, passVars, fileVars, bufVars, sweepVars, appendVars, lockVars, liveVars >>

NextSchedule ==
    \/ ComputeNext
    \/ \E late \in {1, SecondLen}, y \in YesterdayLogs : TimerFires(late, y)
    \/ \E dur \in {0, SecondLen}, takes \in BOOLEAN : DailyFire(dur, takes)
    \/ SizeCheck
    \/ \E late \in {1, SecondLen}, y \in YesterdayLogs : Tick(late, y)
    \/ \E dur \in {0, SecondLen}, takes \in BOOLEAN, y \in YesterdayLogs : TickJob(dur, takes, y)

SpecSchedule == InitSchedule /\ [][NextSchedule]_vars

\* ---------------------------------------------------------------- SpecFile
\* processFile on one file of the walk. The file has the extension .log or
\* another one, and its name carries no date, the date of day 0 or the date of
\* the day before. Another process may hold the file open and write to it
\* ("writer"), or the file may be one this process is denied to open
\* ("denied"). safeCompress succeeds here; SpecCompress follows its failures.
UtilsRevisions == {"part_005", "logger"}

\* offsets of the local zone from UTC, in hours
ZoneOffsets == {-WestOffset, 0, EastOffset}

FileNames ==
    { [ext |-> e, dated |-> d, day |-> n] :
        e \in {"log", "other"}, d \in BOOLEAN, n \in {-1, 0} }

\* time.Parse("20060102", match[1]): the midnight of the date in UTC, in hours
\* from the UTC midnight of day 0
fileDate(n) == 24 * n.day

\* time.Date(now.Year(), now.Month(), now.Day(), 0, 0, 0, 0, loc): part_005
\* takes the local midnight of time.Now().Local(), logger.go the UTC midnight
\* of time.Now().UTC()
currentDate(u, z, h) ==
    IF u = "part_005"
    THEN 24 * (h \div 24) - z
    ELSE 24 * (((h - z) + 24) \div 24) - 24

\* isOldLogFile at the local time h in the zone z: a name without a date is
\* never old
isOldLogFileIn(u, z, h, n) == n.dated /\ Before(fileDate(n), currentDate(u, z, h))

\* os.IsPermission(err) of os.OpenFile(path, os.O_RDWR|os.O_EXCL, 0): the
\* open succeeds on a file another process writes to
isFileLocked(x) == x = "denied"

\* currentLogRegex, logExtRegex: \.log$
MatchesLog(n) == n.ext = "log"

\* checkAndCompressCurrentLog begins with isOldLogFile(path) || isFileLocked(path)
\* except in the oldest revision
DoubleChecks(r) == r \in {"p000a", "p000b"}

\* checkAndCompressCurrentLog up to the attempts of compressCurrentLogWithIndex
checkAndCompressCurrentLog(r, u, z, h, n, s, x) ==
    /\ DoubleChecks(r) => ~(isOldLogFileIn(u, z, h, n) \/ isFileLocked(x))
    /\ s = "big"

\* processFile leaves the file alone after a compression with an index
ReturnsAfter(done) == done

InitFile ==
    /\ logDirs = << "/logs" >>
    /\ GuardAtRest
    /\ IdleLive
    /\ IdleLock
    /\ IdleAppend
    /\ IdleSweep
    /\ IdleBuffer
    /\ rev \in Revisions
    /\ CompressAtRest
    /\ IdlePassVars
    /\ IdleSched
    /\ utils \in UtilsRevisions
    /\ tz \in ZoneOffsets
    /\ hour \in {0, 3, 12, 20, 23}
    /\ fname \in FileNames
    /\ fname.dated \/ fname.day = 0
    /\ size \in {"small", "big"}
    /\ held \in {"free", "writer", "denied"}
    /\ did = << >>
    /\ walked = 0
    /\ verdict = FALSE
    /\ askedAt = hour

\* processFile(path). rolled: the hour ends while checkAndCompressCurrentLog
\* runs, so that the later isOldLogFile reads the next hour. ok: one of the
\* attempts of compressCurrentLogWithIndex succeeds.
processFile(rolled, ok) ==
    /\ walked < MaxWalks
    /\ size # "gone"
    /\ LET later == IF rolled THEN hour + 1 ELSE hour
           tried == /\ MatchesLog(fname)
                    /\ ~isOldLogFileIn(utils, tz, hour, fname)
                    /\ checkAndCompressCurrentLog(rev, utils, tz, hour, fname, size, held)
           first == tried /\ ok
           second == /\ ~ReturnsAfter(first)
                     /\ MatchesLog(fname)
                     /\ isOldLogFileIn(utils, tz, later, fname)
                     /\ ~isFileLocked(held)
       IN /\ did' = (IF first THEN << "indexed" >> ELSE IF tried THEN << "failed" >> ELSE << >>)
                        \o (IF second THEN << "plain" >> ELSE << >>)
          /\ size' = IF second THEN "gone"
                     ELSE IF first /\ rev # "p000a" THEN "empty"
                     ELSE size
          /\ hour' = later
    /\ walked' = walked + 1
    /\ verdict' = isOldLogFileIn(utils, tz, hour, fname)
    /\ askedAt' = hour
    /\ UNCHANGED << utils, tz, fname, held >>
    /\ UNCHANGED << guardVars, compVars, passVars, schedVars, bufVars, sweepVars, appendVars, lockVars, liveVars >>

\* the process that holds the file open appends to it
WriterAppends ==
    /\ held = "writer"
    /\ size \in {"small", "empty"}
    /\ size' = IF size = "empty" THEN "small" ELSE "big"
    /\ UNCHANGED << utils, tz, hour, fname, held, did, walked, verdict, askedAt >>
    /\ UNCHANGED << guardVars, compVars, passVars, schedVars, bufVars, sweepVars, appendVars, lockVars, liveVars >>

NextFile ==
    \/ \E rolled \in BOOLEAN, ok \in BOOLEAN : processFile(rolled, ok)
    \/ WriterAppends

SpecFile == InitFile /\ [][NextFile]_vars

\* -------------------------------------------------------------- SpecBuffer
\* One BufferedWriteSyncer: the goroutines that log call Write and Sync, the
\* goroutine flushRoutine empties the channel into the underlying writer.
\* The records are numbered in the order of the calls of Write.
InitBuffer ==
    /\ logDirs = << "/logs" >>
    /\ GuardAtRest
    /\ IdleLive
    /\ IdleLock
    /\ IdleAppend
    /\ IdleSweep
    /\ IdleBuffer
    /\ IdleCompress
    /\ IdlePassVars
    /\ IdleSched
    /\ IdleFile

\* Write(p): case ws.buffer <- data when the channel has room; default:
\* ws.writer.Write(p), whose error is the error of Write (the record is then
\* not accepted and nothing changes)
Write ==
    /\ accepted < MaxRecords
    /\ accepted' = accepted + 1
    /\ IF Len(buffer) < MaxBuffered
       THEN /\ buffer' = Append(buffer, accepted + 1)
            /\ written' = written
       ELSE /\ written' = Append(written, accepted + 1)
            /\ buffer' = buffer
    /\ UNCHANGED << taken, failed, waiting, syncs >>
    /\ UNCHANGED << guardVars, compVars, passVars, schedVars, fileVars, sweepVars, appendVars, lockVars, liveVars >>

\* flushRoutine: for data := range ws.buffer
flushReceive ==
    /\ taken = 0
    /\ buffer # << >>
    /\ taken' = Head(buffer)
    /\ buffer' = Tail(buffer)
    /\ UNCHANGED << written, accepted, failed, waiting, syncs >>
    /\ UNCHANGED << guardVars, compVars, passVars, schedVars, fileVars, sweepVars, appendVars, lockVars, liveVars >>

\* flushRoutine: ws.writer.Write(data); an error is logged and the record is
\* dropped
flushWrite(ok) ==
    /\ taken # 0
    /\ written' = IF ok THEN Append(written, taken) ELSE written
    /\ failed' = IF ok THEN failed ELSE failed \cup {taken}
    /\ taken' = 0
    /\ UNCHANGED << buffer, accepted, waiting, syncs >>
    /\ UNCHANGED << guardVars, compVars, passVars, schedVars, fileVars, sweepVars, appendVars, lockVars, liveVars >>

\* Sync(): return ws.writer.Sync()
Sync ==
    /\ syncs < MaxSyncs
    /\ syncs' = syncs + 1
    /\ waiting' = Range(buffer) \cup (IF taken # 0 THEN {taken} ELSE {})
    /\ UNCHANGED << buffer, taken, written, accepted, failed >>
    /\ UNCHANGED << guardVars, compVars, passVars, schedVars, fileVars, sweepVars, appendVars, lockVars, liveVars >>

NextBuffer ==
    \/ Write
    \/ flushReceive
    \/ \E ok \in BOOLEAN : flushWrite(ok)
    \/ Sync

SpecBuffer == InitBuffer /\ [][NextBuffer]_vars

\* --------------------------------------------------------------- SpecSweep
\* cleanExpiredGzLogs on a directory with one regular file. The name ends in
\*   log      .log               gz       .gz but not .log.gz (app.log.1.gz)
\*   log.gz   .log.gz            txt      another extension
\* and carries
\*   none     no digits          compact  a date as 20250422
\*   dashed   a date as 2025-04-22
\*   invalid  eight digits the regular expressions take and that are no
\*            date of the calendar (20250230)
\* Times are in half days from the midnight of today; the zone is UTC.
EntryExts == {"log", "gz", "log.gz", "txt"}
EntryDates == {"none", "compact", "dashed", "invalid"}

Entries ==
    { [ext |-> x, date |-> d, day |-> n] :
        x \in EntryExts, d \in EntryDates, n \in {-LongAgo, -1, 0} }

\* a sweep that takes every file for an archive
MatchesAnyFile(r, e) == TRUE

\* the test on the name: p000a filepath.Ext(path) != ".gz", the other
\* revisions gzExtRegex \.log\.gz$
MatchesArchive(r, e) ==
    IF r = "p000a" THEN e.ext \in {"gz", "log.gz"} ELSE e.ext = "log.gz"

\* the date is found and time.Parse("20060102", ...) takes it.
\* p000a: dateRegex on the path, then parseDateFromFileName with the ranges
\* of month and day; p000b: (\d{4})[-_]?(\d{2})[-_]?(\d{2}); p001b: isGzExpired
\* with dateRegex
ParsesDate(r, e) ==
    IF r = "p000b" THEN e.date \in {"compact", "dashed"} ELSE e.date = "compact"

\* fileDate.Before(time.Now().Add(-maxSaveTime))
EntryExpired(e, now, save) == Before(2 * e.day, now - save)

InitSweep ==
    /\ logDirs = << "/logs" >>
    /\ GuardAtRest
    /\ IdleLive
    /\ IdleLock
    /\ IdleAppend
    /\ IdleBuffer
    /\ rev \in Revisions
    /\ CompressAtRest
    /\ IdlePassVars
    /\ IdleSched
    /\ IdleFile
    /\ entry \in Entries
    /\ entry.date = "none" => entry.day = 0
    /\ present = TRUE
    /\ today \in {0, 1}
    /\ maxSave \in 0..MaxRetention
    /\ visits = 0

\* cleanExpiredGzLogs(logDir, maxSaveTime): the callback of filepath.Walk on
\* the file, dt after the call before. busy: isFileLocked(path) in the
\* revision that asks; ok: os.Remove succeeds.
sweepEntry(dt, busy, ok) ==
    /\ visits < MaxSweeps
    /\ present
    /\ visits' = visits + 1
    /\ today' = today + dt
    /\ present' = ~(/\ MatchesArchive(rev, entry)
                    /\ ParsesDate(rev, entry)
                    /\ EntryExpired(entry, today', maxSave)
                    /\ SweepChecksLock(rev) => ~busy
                    /\ ok)
    /\ UNCHANGED << entry, maxSave >>
    /\ UNCHANGED << guardVars, compVars, passVars, schedVars, fileVars, bufVars, appendVars, lockVars, liveVars >>

NextSweep ==
    \E dt \in {0, 1}, busy \in BOOLEAN, ok \in BOOLEAN : sweepEntry(dt, busy, ok)

SpecSweep == InitSweep /\ [][NextSweep]_vars

\* -------------------------------------------------------------- SpecAppend
\* The compression with an index of a log that the logger of the process
\* holds open and appends to. mode "index": checkAndCompressCurrentLog ->
\* compressCurrentLogWithIndex; mode "force": forceCompressOvernightLog when
\* <name>.1.gz does not exist (part_003 with p000a, part_004 with p000b). The
\* records are numbered in the order they are appended. The file operations succeed (SpecCompress follows their
\* failures).
InitAppend ==
    /\ logDirs = << "/logs" >>
    /\ GuardAtRest
    /\ IdleLive
    /\ IdleLock
    /\ IdleSweep
    /\ IdleBuffer
    /\ rev \in Revisions
    /\ CompressAtRest
    /\ IdlePassVars
    /\ IdleSched
    /\ IdleFile
    /\ mode \in {"index", "force"}
    /\ mode = "force" => rev \in {"p000a", "p000b"}
    /\ initial \in 1..MaxLogged
    /\ logData = 1..initial
    /\ archData = {}
    /\ appended = initial
    /\ linked = TRUE
    /\ apc = "idle"

\* the logger writes a record to the file it holds open; once the name is
\* removed the record goes to a file no name leads to
AppendRecord ==
    /\ appended < initial + MaxAppends
    /\ appended' = appended + 1
    /\ logData' = IF linked THEN logData \cup {appended + 1} ELSE logData
    /\ UNCHANGED << mode, archData, initial, linked, apc >>
    /\ UNCHANGED << guardVars, compVars, passVars, schedVars, fileVars, bufVars, sweepVars, lockVars, liveVars >>

\* gzipLogFileWithIndex: os.Open(src), os.Create of the archive (p000a and
\* atomicGzipWithIndex: of <archive>.tmp)
OpenSource ==
    /\ apc = "idle"
    /\ apc' = "copy"
    /\ UNCHANGED << mode, logData, archData, initial, appended, linked >>
    /\ UNCHANGED << guardVars, compVars, passVars, schedVars, fileVars, bufVars, sweepVars, lockVars, liveVars >>

\* io.Copy(gzWriter, inFile): the next record of the log is read and written
CopyRecord ==
    /\ apc = "copy"
    /\ logData \ archData # {}
    /\ archData' = archData \cup {CHOOSE b \in logData \ archData :
                                    \A c \in logData \ archData : b <= c}
    /\ UNCHANGED << mode, logData, initial, appended, linked, apc >>
    /\ UNCHANGED << guardVars, compVars, passVars, schedVars, fileVars, bufVars, sweepVars, lockVars, liveVars >>

\* io.Copy reads the end of the file and returns; the writers are closed
CopyEnd ==
    /\ apc = "copy"
    /\ logData \ archData = {}
    /\ apc' = "copied"
    /\ UNCHANGED << mode, logData, archData, initial, appended, linked >>
    /\ UNCHANGED << guardVars, compVars, passVars, schedVars, fileVars, bufVars, sweepVars, lockVars, liveVars >>

\* what follows io.Copy. p000a: os.Rename of the temporary file, the log stays
\* as it is, and forceCompressOvernightLog then calls os.Remove(src); the
\* other revisions: os.Truncate(src, 0) in gzipLogFileWithIndex
AfterCopy ==
    /\ apc = "copied"
    /\ apc' = "done"
    /\ logData' = IF rev = "p000a" /\ mode = "index" THEN logData ELSE {}
    /\ linked' = ~(rev = "p000a" /\ mode = "force")
    /\ UNCHANGED << mode, archData, initial, appended >>
    /\ UNCHANGED << guardVars, compVars, passVars, schedVars, fileVars, bufVars, sweepVars, lockVars, liveVars >>

NextAppend ==
    \/ AppendRecord
    \/ OpenSource
    \/ CopyRecord
    \/ CopyEnd
    \/ AfterCopy

SpecAppend == InitAppend /\ [][NextAppend]_vars

\* ---------------------------------------------------------------- SpecLock
\* safeRunCompressionJob, runCompressionJob and processDirectory of part_000
\* statement by statement, for two trigger goroutines with the list
\* /logs, /var. A task that is at a statement between Lock and Unlock holds
\* the mutex; the shared variables a statement reads and writes are those of
\* Reads and Writes below. Time is not followed: any time can pass between
\* two statements, so every comparison of time.Since(lastRunTime) can come
\* out either way once lastRunTime is set.
InitLock ==
    /\ logDirs = << "/logs", "/var" >>
    /\ GuardAtRest
    /\ IdleLive
    /\ IdleAppend
    /\ IdleSweep
    /\ IdleBuffer
    /\ IdleCompress
    /\ IdlePassVars
    /\ IdleSched
    /\ IdleFile
    /\ IdleLock

\* the shared variables the statement of task k reads
Reads(k) ==
    (IF lpc[k] = "check" THEN {"lastRunTime"} ELSE {})
    \cup (IF lpc[k] = "evict" THEN {"processingDirs"} ELSE {})
    \cup (IF lpc[k] = "evict" /\ regDirs # {} THEN {"lastRunTime"} ELSE {})
    \cup (IF lpc[k] = "mark" THEN {"processingDirs"} ELSE {})
    \cup (IF lpc[k] = "getLock" THEN {"dirLocks"} ELSE {})
    \cup (IF lpc[k] = "evictFiles" THEN {"processingFiles"} ELSE {})
    \cup (IF lpc[k] = "evictFiles" /\ regFiles # {} THEN {"lastRunTime"} ELSE {})
    \cup (IF lpc[k] = "register" THEN {"processingFiles"} ELSE {})

\* the shared variables the statement of task k writes
Writes(k) ==
    (IF lpc[k] = "stamp" THEN {"lastRunTime"} ELSE {})
    \cup (IF lpc[k] \in {"evict", "mark", "delete"} THEN {"processingDirs"} ELSE {})
    \cup (IF lpc[k] = "getLock" THEN {"dirLocks"} ELSE {})
    \cup (IF lpc[k] \in {"evictFiles", "register", "unregister"}
          THEN {"processingFiles"} ELSE {})

\* s.Lock() by task k, which goes on to the statement pc
Acquire(k, m, pc) ==
    /\ mutex[m] = NoTask
    /\ mutex' = [mutex EXCEPT ![m] = k]
    /\ lpc' = [lpc EXCEPT ![k] = pc]

\* s.Unlock()
Release(k, m, pc) ==
    /\ mutex[m] = k
    /\ mutex' = [mutex EXCEPT ![m] = NoTask]
    /\ lpc' = [lpc EXCEPT ![k] = pc]

\* safeRunCompressionJob: taskLock.Lock(); time.Since(lastRunTime) is next
LockTask(k) ==
    /\ k \in TriggerTasks
    /\ lpc[k] = "idle"
    /\ lcalls < MaxLockCalls
    /\ lcalls' = lcalls + 1
    /\ Acquire(k, "taskLock", "check")
    /\ UNCHANGED << regDirs, regFiles, stamped >>
    /\ UNCHANGED << guardVars, compVars, passVars, schedVars, fileVars, bufVars, sweepVars, appendVars, liveVars >>

\* time.Since(lastRunTime) < minInterval: taskLock.Unlock() and return
TooFrequent(k) ==
    /\ lpc[k] = "check"
    /\ stamped
    /\ Release(k, "taskLock", "idle")
    /\ UNCHANGED << regDirs, regFiles, stamped, lcalls >>
    /\ UNCHANGED << guardVars, compVars, passVars, schedVars, fileVars, bufVars, sweepVars, appendVars, liveVars >>

\* the interval has passed: lastRunTime = time.Now() is next
IntervalPassed(k) ==
    /\ lpc[k] = "check"
    /\ lpc' = [lpc EXCEPT ![k] = "stamp"]
    /\ UNCHANGED << mutex, regDirs, regFiles, stamped, lcalls >>
    /\ UNCHANGED << guardVars, compVars, passVars, schedVars, fileVars, bufVars, sweepVars, appendVars, liveVars >>

\* lastRunTime = time.Now(); taskLock.Unlock()
Stamp(k) ==
    /\ lpc[k] = "stamp"
    /\ stamped' = TRUE
    /\ Release(k, "taskLock", "job")
    /\ UNCHANGED << regDirs, regFiles, lcalls >>
    /\ UNCHANGED << guardVars, compVars, passVars, schedVars, fileVars, bufVars, sweepVars, appendVars, liveVars >>

\* runCompressionJob: processingMu.Lock(); the eviction loop is next
LockRegistry(k) ==
    /\ lpc[k] = "job"
    /\ Acquire(k, "processingMu", "evict")
    /\ UNCHANGED << regDirs, regFiles, stamped, lcalls >>
    /\ UNCHANGED << guardVars, compVars, passVars, schedVars, fileVars, bufVars, sweepVars, appendVars, liveVars >>

\* the eviction loop: for every key time.Since(lastRunTime) > 5 minutes
EvictDirs(k, stale) ==
    /\ lpc[k] = "evict"
    /\ stale => regDirs # {}
    /\ regDirs' = IF stale THEN {} ELSE regDirs
    /\ lpc' = [lpc EXCEPT ![k] = "mark"]
    /\ UNCHANGED << mutex, regFiles, stamped, lcalls >>
    /\ UNCHANGED << guardVars, compVars, passVars, schedVars, fileVars, bufVars, sweepVars, appendVars, liveVars >>

\* the marking loop; processingMu.Unlock(); go func(absDir) for the marked
\* directories, or return when there is none
MarkAndLaunch(k) ==
    /\ lpc[k] = "mark"
    /\ mutex["processingMu"] = k
    /\ mutex' = [mutex EXCEPT !["processingMu"] = NoTask]
    /\ regDirs' = LockDirs
    /\ lpc' = [j \in Tasks |->
                 IF j = k THEN (IF LockDirs \subseteq regDirs THEN "idle" ELSE "wait")
                 ELSE IF j[1] = k[1] /\ j[2] \in LockDirs \ regDirs THEN "start"
                 ELSE lpc[j]]
    /\ UNCHANGED << regFiles, stamped, lcalls >>
    /\ UNCHANGED << guardVars, compVars, passVars, schedVars, fileVars, bufVars, sweepVars, appendVars, liveVars >>

\* wg.Wait() returns
Joined(k) ==
    /\ lpc[k] = "wait"
    /\ \A d \in LockDirs : lpc[<< k[1], d >>] \in {"none", "done"}
    /\ lpc' = [j \in Tasks |-> IF j = k THEN "idle"
                               ELSE IF j[1] = k[1] THEN "none" ELSE lpc[j]]
    /\ UNCHANGED << mutex, regDirs, regFiles, stamped, lcalls >>
    /\ UNCHANGED << guardVars, compVars, passVars, schedVars, fileVars, bufVars, sweepVars, appendVars, liveVars >>

\* the worker: the Lock() it is waiting at, by its position
WorkerLocks(k) ==
    \/ lpc[k] = "start" /\ Acquire(k, "dirLocks.mu", "getLock")
    \/ lpc[k] = "lock" /\ Acquire(k, k[2], "dir")
    \/ lpc[k] = "dir" /\ Acquire(k, "filesMu", "evictFiles")
    \/ lpc[k] = "walk" /\ Acquire(k, "filesMu", "register")
    \/ lpc[k] = "file" /\ Acquire(k, "filesMu", "unregister")
    \/ lpc[k] = "deferred" /\ Acquire(k, "processingMu", "delete")

\* dirLocks.getLock: dm.mu.Lock(); dirLock.Lock(); in processDirectory
\* filesMu.Lock() before the eviction loop and around the accesses to
\* processingFiles; the deferred processingMu.Lock()
WorkerLock(k) ==
    /\ k \in WorkerTasks
    /\ WorkerLocks(k)
    /\ UNCHANGED << regDirs, regFiles, stamped, lcalls >>
    /\ UNCHANGED << guardVars, compVars, passVars, schedVars, fileVars, bufVars, sweepVars, appendVars, liveVars >>

\* getLock returns: the deferred dm.mu.Unlock()
GotLock(k) ==
    /\ lpc[k] = "getLock"
    /\ Release(k, "dirLocks.mu", "lock")
    /\ UNCHANGED << regDirs, regFiles, stamped, lcalls >>
    /\ UNCHANGED << guardVars, compVars, passVars, schedVars, fileVars, bufVars, sweepVars, appendVars, liveVars >>

\* processDirectory: the eviction loop over processingFiles, for every path
\* time.Since(lastRunTime) > 5 minutes; filesMu.Unlock()
EvictFiles(k, stale) ==
    /\ lpc[k] = "evictFiles"
    /\ stale => regFiles # {}
    /\ regFiles' = IF stale THEN {} ELSE regFiles
    /\ Release(k, "filesMu", "walk")
    /\ UNCHANGED << regDirs, stamped, lcalls >>
    /\ UNCHANGED << guardVars, compVars, passVars, schedVars, fileVars, bufVars, sweepVars, appendVars, liveVars >>

\* the callback of the walk: processingFiles[path] = true; filesMu.Unlock();
\* processFile is next
RegisterFile(k) ==
    /\ lpc[k] = "register"
    /\ regFiles' = regFiles \cup {k[2]}
    /\ Release(k, "filesMu", "file")
    /\ UNCHANGED << regDirs, stamped, lcalls >>
    /\ UNCHANGED << guardVars, compVars, passVars, schedVars, fileVars, bufVars, sweepVars, appendVars, liveVars >>

\* the deferred delete(processingFiles, path); filesMu.Unlock(); the walk ends
\* and cleanExpiredGzLogs is next
UnregisterFile(k) ==
    /\ lpc[k] = "unregister"
    /\ regFiles' = regFiles \ {k[2]}
    /\ Release(k, "filesMu", "sweep")
    /\ UNCHANGED << regDirs, stamped, lcalls >>
    /\ UNCHANGED << guardVars, compVars, passVars, schedVars, fileVars, bufVars, sweepVars, appendVars, liveVars >>

\* cleanExpiredGzLogs has returned: the deferred dirLock.Unlock()
UnlockDir(k) ==
    /\ lpc[k] = "sweep"
    /\ Release(k, k[2], "deferred")
    /\ UNCHANGED << regDirs, regFiles, stamped, lcalls >>
    /\ UNCHANGED << guardVars, compVars, passVars, schedVars, fileVars, bufVars, sweepVars, appendVars, liveVars >>

\* the deferred delete(processingDirs, d); processingMu.Unlock(); wg.Done()
DeleteDir(k) ==
    /\ lpc[k] = "delete"
    /\ regDirs' = regDirs \ {k[2]}
    /\ Release(k, "processingMu", "done")
    /\ UNCHANGED << regFiles, stamped, lcalls >>
    /\ UNCHANGED << guardVars, compVars, passVars, schedVars, fileVars, bufVars, sweepVars, appendVars, liveVars >>

NextLock ==
    \/ \E k \in Tasks : LockTask(k)
    \/ \E k \in Tasks : TooFrequent(k)
    \/ \E k \in Tasks : IntervalPassed(k)
    \/ \E k \in Tasks : Stamp(k)
    \/ \E k \in Tasks : LockRegistry(k)
    \/ \E k \in Tasks, stale \in BOOLEAN : EvictDirs(k, stale)
    \/ \E k \in Tasks : MarkAndLaunch(k)
    \/ \E k \in Tasks : Joined(k)
    \/ \E k \in Tasks : WorkerLock(k)
    \/ \E k \in Tasks : GotLock(k)
    \/ \E k \in Tasks, stale \in BOOLEAN : EvictFiles(k, stale)
    \/ \E k \in Tasks : RegisterFile(k)
    \/ \E k \in Tasks : UnregisterFile(k)
    \/ \E k \in Tasks : UnlockDir(k)
    \/ \E k \in Tasks : DeleteDir(k)

SpecLock == InitLock /\ [][NextLock]_vars

\* ---------------------------------------------------------------- SpecLive
\* runCompressionJob of part_001 (fileLock held for the whole job) with the
\* walk followed to checkAndCompressCurrentLog and the index search of
\* compressCurrentLogWithIndex. Every file-system call returns. The goroutines
\* are scheduled fairly and a goroutine waiting at fileLock.Lock() gets the
\* mutex if it is released again and again; the triggers themselves (ticker,
\* timer) are not obliged to fire.
InitLive ==
    /\ logDirs \in { << "/logs" >>, << "/logs", "/var" >> }
    /\ GuardAtRest
    /\ IdleLock
    /\ IdleAppend
    /\ IdleSweep
    /\ IdleBuffer
    /\ IdleCompress
    /\ IdlePassVars
    /\ IdleSched
    /\ IdleFile
    /\ nameLen \in [LiveDirs -> {NameMax - 1, NameMax}]
    /\ big \in [LiveDirs -> BOOLEAN]
    /\ indexed \in [LiveDirs -> 0..1]
    /\ index = [w \in WorkerIds |-> 0]

\* bytes of fmt.Sprintf("%d", i), the sign included
Digits(i) ==
    IF i < 0 THEN (IF -i < 10 THEN 2 ELSE 3)
    ELSE IF i < 10 THEN 1 ELSE 2

\* index++ on an int
Incr(i) == IF i = MaxSearch THEN -MaxSearch - 1 ELSE i + 1

\* os.Stat(dst) for dst = <base>.<i>.gz, where <base>.log has len bytes and
\* archives 1..n exist: the name of dst has len - 4 + 1 + Digits(i) + 3 bytes
StatDst(len, i, n) ==
    IF len + Digits(i) > NameMax THEN "ENAMETOOLONG"
    ELSE IF 1 <= i /\ i <= n THEN "nil"
    ELSE "ENOENT"

\* the callback of filepath.Walk over the directory: safeCompress on the old
\* log; checkAndCompressCurrentLog on the current log, which returns false
\* below maxCurrentSize and otherwise calls compressCurrentLogWithIndex
LiveWalk(w) ==
    /\ worker[w].pc = "walk"
    /\ fileLock \in locked
    /\ oldLog' = [oldLog EXCEPT ![worker[w].d] = FALSE]
    /\ gzCount' = [gzCount EXCEPT ![worker[w].d] = IF oldLog[worker[w].d] THEN @ + 1 ELSE @]
    /\ worker' = [worker EXCEPT ![w].pc = IF big[worker[w].d] THEN "search" ELSE "sweep"]
    /\ index' = [index EXCEPT ![w] = IF big[worker[w].d] THEN 1 ELSE 0]
    /\ UNCHANGED << nameLen, big, indexed >>
    /\ UNCHANGED << compVars, passVars, schedVars, fileVars, bufVars, sweepVars, appendVars, lockVars >>
    /\ UNCHANGED << logDirs, lastGap, sinceLastRun, ticks, processingDirs, regInfo,
                    processingFiles, dirLocks, locked, pass, calls, rollovers >>

\* one turn of the loop of compressCurrentLogWithIndex: os.Stat(dst); on
\* os.IsNotExist(err) gzipLogFileWithIndex(src, dst), which on success has
\* created dst and truncated src, and the function returns; on any other
\* result index++
Search(w, ok) ==
    /\ worker[w].pc = "search"
    /\ fileLock \in locked
    /\ LET d == worker[w].d
           st == StatDst(nameLen[d], index[w], indexed[d])
       IN IF st = "ENOENT"
          THEN /\ worker' = [worker EXCEPT ![w].pc = "sweep"]
               /\ index' = [index EXCEPT ![w] = 0]
               /\ indexed' = [indexed EXCEPT ![d] = IF ok THEN index[w] ELSE @]
               /\ big' = [big EXCEPT ![d] = IF ok THEN FALSE ELSE @]
          ELSE /\ ok
               /\ index' = [index EXCEPT ![w] = Incr(@)]
               /\ UNCHANGED << worker, indexed, big >>
    /\ UNCHANGED nameLen
    /\ UNCHANGED << compVars, passVars, schedVars, fileVars, bufVars, sweepVars, appendVars, lockVars >>
    /\ UNCHANGED << logDirs, lastGap, sinceLastRun, ticks, processingDirs, regInfo,
                    processingFiles, dirLocks, locked, pass, oldLog, gzCount, calls,
                    rollovers >>

NextLive ==
    \/ \E t \in Triggers : JobCall(t)
    \/ \E t \in Triggers : JobLaunch(t)
    \/ \E w \in WorkerIds : LiveWalk(w)
    \/ \E w \in WorkerIds, ok \in BOOLEAN : Search(w, ok)
    \/ \E w \in WorkerIds : JobSweep(w)
    \/ \E t \in Triggers : JobReturn(t)
    \/ \E t \in Triggers : OvernightBegin(t)
    \/ \E t \in Triggers : OvernightEnd(t)

\* every goroutine that can take a step takes one; sync.Mutex hands the mutex
\* to a goroutine that keeps waiting for it
LiveFairness ==
    /\ \A t \in Triggers : SF_vars(JobLaunch(t))
    /\ \A t \in Triggers : SF_vars(OvernightBegin(t))
    /\ \A t \in Triggers : WF_vars(JobReturn(t))
    /\ \A t \in Triggers : WF_vars(OvernightEnd(t))
    /\ \A w \in WorkerIds : WF_vars(LiveWalk(w))
    /\ \A w \in WorkerIds : WF_vars(Search(w, TRUE))
    /\ \A w \in WorkerIds : WF_vars(JobSweep(w))

SpecLive == InitLive /\ [][NextLive]_vars /\ LiveFairness

\* ---------------------------------------------------------------- claims
InProcessDirectory(w) == worker[w].pc \in {"walk", "compress", "remove", "sweep"}

\* C1: when two passes over the same directory run concurrently, the old log
\* they both found there is compressed by exactly one of them (and so is gone
\* when both have returned); it is never archived twice.
C1_ExactlyOneCompresses ==
    \A d \in AbsDirs :
        /\ gzCount[d] <= 1
        /\ (\A t \in Triggers :
               /\ pass[t].pc = "returned"
               /\ pass[t].overlapped
               /\ d \in pass[t].saw)
           => (gzCount[d] = 1 /\ ~oldLog[d])

\* C2: at most one worker is inside processDirectory (the walk or the sweep)
\* on a given directory at any time, whichever passes launched the workers.
C2_OneWorkerPerDir ==
    \A w1, w2 \in WorkerIds :
        (w1 # w2 /\ InProcessDirectory(w1) /\ InProcessDirectory(w2))
            => worker[w1].d # worker[w2].d

\* C2 witness: a worker is inside processDirectory while a second worker for
\* the same directory waits for the directory's mutex.
C2_Witness ==
    \E w1, w2 \in WorkerIds :
        /\ w1 # w2
        /\ InProcessDirectory(w1)
        /\ worker[w2].pc = "lock"
        /\ worker[w2].d = worker[w1].d
        /\ ~LockFree(getLock(worker[w2].d, w2))

\* C3: a pass never picks up (marks for launching a worker) a directory that
\* another running pass holds registered in processingDirs, under whatever
\* spelling.
C3_NoSecondPickup ==
    [][\A t \in Triggers, dt \in {0} \cup TickSteps :
          RegistryScan(t, dt) =>
             \A i \in 1..Len(pass'[t].dirsToProcess) :
                IsDir(Abs(pass'[t].dirsToProcess[i])) =>
                   ~\E k \in processingDirs' :
                       /\ Abs(k) = Abs(pass'[t].dirsToProcess[i])
                       /\ regInfo'[k].by \in Triggers \ {t}
                       /\ Running(regInfo'[k].by)]_vars

\* C4: when runCompressionJob has returned, none of the keys the pass
\* registered is left in processingDirs.
C4_AllReleased ==
    \A t \in Triggers :
        pass[t].pc = "returned" =>
            \A k \in processingDirs : regInfo[k].by # t

\* C5: a registry scan evicts every registration that has been present for
\* more than five minutes (the scanning pass may then register the key anew).
C5_StaleEvicted ==
    [][\A t \in Triggers, dt \in {0} \cup TickSteps :
          RegistryScan(t, dt) =>
             \A k \in processingDirs :
                Plus(regInfo[k].age, dt) > staleWindow =>
                   (k \notin processingDirs' \/ regInfo'[k].age = 0)]_vars

InSafeCompress ==
    op = "safeCompress" /\ cpc \in {"gzOpen", "gzCreate", "gzCopy", "gzClose", "gzRemove"}

\* C6: at every instant of safeCompress the directory shows either the old log
\* with nothing under the name <src>.gz, or the complete archive; a partly
\* written file is never seen under the name <src>.gz.
C6_NoPartialArchiveVisible ==
    InSafeCompress => ((oldSrc = "intact" /\ gz = "none") \/ gz = "complete")

\* C7: when open, create, copy or the closing flush of the old log's
\* compression has failed, the old log is still there and no partial archive
\* is left.
C7_FailureLeavesSource ==
    (op = "safeCompress" /\ cpc = "idle" /\ fault \in {"open", "create", "copy", "close"})
        => (oldSrc = "intact" /\ gz # "partial")

\* C8: after an indexed compression that failed or was interrupted there is no
\* .tmp file, no incomplete archive, and the current log is truncated only
\* with its complete archive in place.
C8_InterruptedIndexedIsClean ==
    (op = "indexed" /\ cpc = "idle" /\ fault # "none")
        => /\ \A i \in Indices : tmp[i] = "none"
           /\ \A i \in Indices : archive[i] # "partial"
           /\ src = "truncated" => archive[dst] = "complete"

\* C9: the index compressCurrentLogWithIndex chooses is the largest index of
\* the archives present plus one.
C9_NextIsMaxPlusOne ==
    (op = "indexed" /\ cpc = "wiOpen") => dst = MaxOf(existingFiles) + 1

\* C10: the indices of the archives, in the order of their creation, are
\* strictly increasing: no archive name is created a second time.
C10_IndicesIncrease ==
    \A i, j \in 1..Len(created) : i < j => created[i] < created[j]

\* C11: when an indexed compression of the current log (size-triggered or
\* forced overnight) ends with success, the log is still at its path, with
\* length zero.
C11_SourceTruncatedInPlace ==
    [][(op \in {"indexed", "force"} /\ cpc # "idle" /\ cpc' = "idle" /\ fault' = "none")
          => src' = "truncated"]_vars

\* C12: checkAndCompressCurrentLog makes at most three attempts, makes another
\* attempt only after one that returned an error, and when the third attempt
\* has failed too it gives up with the log uncompressed and unmodified.
C12_ThreeAttemptsThenUnmodified ==
    [][/\ attempts' <= 3
       /\ (attempts' = attempts + 1 /\ attempts >= 1) => fault \in ReturnedErrors(rev)
       /\ (op = "indexed" /\ attempts = 3 /\ cpc # "idle" /\ cpc' = "idle"
              /\ fault' \in ReturnedErrors(rev))
            => (src' = "intact" /\ archive' = archive)]_vars

\* C19: two accepted passes never start less than minInterval apart, whichever
\* triggers call; a call that is rejected leaves lastRunTime as it was, starts
\* no worker and touches neither the files nor the registries.
C19_MinIntervalBetweenPasses ==
    [][/\ lastGap' >= minInterval
       /\ (/\ calls' = calls + 1
           /\ ~\E t \in Triggers : pass[t].pc # "scan" /\ pass'[t].pc = "scan")
          => /\ sinceLastRun' >= sinceLastRun
             /\ ticks' # ticks => sinceLastRun' > sinceLastRun
             /\ UNCHANGED << oldLog, gzCount, worker, processingDirs, processingFiles,
                             dirLocks, locked, lastGap >>]_vars

\* C19 witness: a second pass was accepted exactly minInterval after the one
\* before and is running, while the call of the other trigger was rejected.
C19_Witness ==
    \E t, u \in Triggers :
        /\ pass[t].pc = "rejected"
        /\ Running(u)
        /\ lastGap = minInterval
        /\ sinceLastRun < minInterval

\* C20: a panic inside a pass, the per-directory worker goroutines included,
\* never ends the process.
C20_PanicIsRecovered ==
    \A t \in Triggers : pass[t].pc # "crashed"

\* the sweep takes the next name, and the walk hands it over without error
SweepVisits(f) == ppc = "sweep" /\ names # << >> /\ Head(names) = f /\ walkErr' = "none"

\* C13: the sweep compares strictly. An archive it examines whose date is
\* exactly the retention before now is kept, and one whose date is a day
\* earlier is removed, at whatever time of day the sweep runs.
C13_StrictAtBoundary ==
    [][\A f \in Archives :
          (SweepVisits(f) /\ SweepMatches(rev, f) /\ f \notin osLocked) =>
             /\ FileTime(f) = halfDay - retention => Has(files', f)
             /\ FileTime(f) = halfDay - retention - 2 => ~Has(files', f)]_vars

\* C13 witness: half a day into today with half a day of retention, a sweep
\* without walk error has ended: the archive of today, dated exactly the
\* retention before now, is kept, and the archive dated the day before is
\* removed.
C13_Witness ==
    /\ ppc = "idle"
    /\ Len(hist) = 2
    /\ sweepErr = "ok"
    /\ errors = 0
    /\ osLocked = {}
    /\ halfDay = 1 /\ retention = 1 /\ oldDate = -1
    /\ rev = "p000a"
    /\ hist[1].gz /\ ~files.gz
    /\ files.carch > 0

\* C14: when a sweep has ended without error and no archive is held, no
\* archive older than now - retention is left, whichever of the two name
\* forms it has.
C14_EveryExpiredArchiveRemoved ==
    (ppc = "idle" /\ sweepErr = "ok" /\ errors = 0 /\ registered = {} /\ osLocked = {})
        => \A f \in Archives : Has(files, f) => ~isGzExpired(f)

\* C15: a step of the sweep never removes an archive that is in processingFiles
\* or that another process holds locked.
C15_HeldArchiveIsSkipped ==
    [][(ppc = "sweep" /\ walkErr' # "vanished") =>
          \A f \in registered \cup osLocked : Has(files, f) => Has(files', f)]_vars

\* C16: when the walk of the sweep hands over the error of a vanished path, the
\* sweep goes on with the next name and returns no error for it; on any other
\* walk error the sweep stops and returns that error.
C16_WalkErrors ==
    [][(ppc = "sweep" /\ errors' = errors + 1) =>
          /\ walkErr' = "vanished" => (sweepErr' = "none" /\ names' = Tail(names))
          /\ walkErr' = "other" => (sweepErr' = "other" /\ names' = << >>)]_vars

\* C17: the directory holds one old log only, retention is 0: when exactly one
\* pass has ended, the archive <name>.log.gz is there and the log is not.
C17_ArchiveOutlivesFirstPass ==
    (/\ ppc = "idle"
     /\ Len(hist) = 2
     /\ hist[1] = [NoFiles EXCEPT !.log = TRUE]
     /\ oldDate = -LongAgo
     /\ retention = 0
     /\ errors = 0 /\ registered = {} /\ osLocked = {})
        => (files.gz /\ ~files.log)

\* C18: a second pass right after the first, with no walk error and no file
\* held, leaves the directory as the first pass left it.
C18_PassIsIdempotent ==
    (Len(hist) = 3 /\ errors = 0 /\ registered = {} /\ osLocked = {})
        => hist[3] = hist[2]

\* C21: nextRunTime returns the occurrence of the configured time of day of
\* today when that has not passed and the one of tomorrow otherwise: the
\* instant is never before the current time and shows the configured wall
\* clock time, today or on the next calendar day.
C21_NextOccurrence ==
    spc = "wait" =>
        /\ next >= calledAt
        /\ TimeOfDay(Wall(zone, next)) = target
        /\ DayOf(Wall(zone, next)) =
               IF TodayAt(zone, target, calledAt) >= calledAt
               THEN DayOf(Wall(zone, calledAt))
               ELSE DayOf(Wall(zone, calledAt)) + 1

\* C22: whatever daily fire time is configured, the daily trigger runs the
\* pass and the overnight compression each time the instant it computed is
\* reached: when the loop of scheduleDailyJob is back at its top, the job has
\* run as often as the timer has fired.
C22_JobRunsAtEveryFire == spc = "compute" => jobs = fires

\* C23: once a daily fire has completed, no log that carries the date of
\* yesterday remains uncompressed: the job has compressed it whatever its size.
C23_YesterdayLogCompressed ==
    (spc = "compute" /\ fires > 0) => ylog \notin {"log", "log1", "copied"}

\* C24: isOldLogFile says old exactly for a name with a date whose day is
\* before the local day of the call: in every zone a file with the date of
\* today is not old and one with the date of yesterday is.
C24_OldIffBeforeLocalToday ==
    walked > 0 => (verdict <=> (fname.dated /\ fname.day < askedAt \div 24))

\* C25: a pass leaves a file alone whose name carries no date, whatever its
\* size: processFile neither compresses, truncates nor removes it.
C25_UndatedUntouched ==
    (walked > 0 /\ ~fname.dated) =>
        (did \in {<< >>, << "failed" >>} /\ size \notin {"empty", "gone"})

\* C26: an old log another process holds open and writes to is found locked
\* and skipped: processFile does not compress it into <name>.gz and does not
\* remove it.
C26_WrittenLogSkipped ==
    (walked > 0 /\ held = "writer") =>
        (did \notin {<< "plain" >>, << "indexed", "plain" >>} /\ size # "gone")

\* C30: processFile takes at most one action on a file, chosen in this order:
\* the compression with an index for a current log of the threshold size or
\* more; else the plain compression for an old log that is not locked; else
\* none. The step is one in which no attempt of the compression fails.
C30_OneActionInOrder ==
    [][(walked' = walked + 1 /\ did' # << "failed" >>) =>
          LET current == MatchesLog(fname) /\ ~(fname.dated /\ fname.day < askedAt' \div 24)
              old == MatchesLog(fname) /\ fname.dated /\ fname.day < hour' \div 24
          IN did' = IF current /\ size = "big" THEN << "indexed" >>
                    ELSE IF old /\ held = "free" THEN << "plain" >>
                    ELSE << >>]_vars

\* C28: every pass over a directory calls the sweep exactly once, and only when
\* the compression walk over the directory has ended.
C28_SweepExactlyOnce ==
    /\ ppc = "sweep" => (sweeps = 1 /\ walkRet # "none")
    /\ (ppc = "idle" /\ Len(hist) >= 2) => sweeps = 1

\* C27: an entry of the list that is no directory, or a failure inside the
\* worker of one directory, keeps no other directory of the pass from being
\* processed: when a worker has failed, at most the directory of that worker
\* still has its old log.
C27_OtherDirectoriesProcessed ==
    ((\E t \in Triggers : pass[t].pc = "crashed") /\ rollovers = 0) =>
        Cardinality({ d \in {Abs(k) : k \in Range(logDirs)} : IsDir(d) /\ oldLog[d] }) <= 1

\* C29: no global lock serializes directories that have nothing to do with
\* each other: a pass is never kept waiting at a lock while all that is in
\* progress is the worker of another pass on one directory and another
\* directory of the list has no worker.
C29_NoWaitAcrossDirectories ==
    \A t \in Triggers, u \in Triggers, w \in WorkerIds, d \in AbsDirs :
        ~(/\ u # t
          /\ pass[u].pc = "filelock"
          /\ w[1] = t
          /\ worker[w].pc \in {"walk", "sweep"}
          /\ d # worker[w].d
          /\ d \in {Abs(k) : k \in Range(logDirs)}
          /\ IsDir(d)
          /\ \A v \in WorkerIds : worker[v].d = d => worker[v].pc \notin {"walk", "sweep"})

\* C36: the daily trigger fires once per occurrence of the configured time:
\* the target that scheduleDailyJob computes after a fire is strictly later
\* than the target that just fired, so no target fires twice.
C36_NoSecondFireForTarget ==
    [][(spc = "compute" /\ spc' = "wait" /\ fires > 0) => next' > next]_vars

\* C32: a directory the list of one pass names more than once is processed by
\* at most one worker of that pass: no two goroutines of one call of
\* runCompressionJob are given the same directory.
C32_OneWorkerPerDirectory ==
    \A v \in WorkerIds, w \in WorkerIds :
        (v # w /\ v[1] = w[1] /\ worker[v].pc # "none" /\ worker[w].pc # "none")
            => worker[v].d # worker[w].d

\* C39: BufferedWriteSyncer delivers the records to the underlying writer in
\* the order of the calls of Write: no record reaches the underlying writer
\* before a record written earlier, also when the buffer is full.
C39_WrittenInOrder ==
    \A i \in 1..Len(written), j \in 1..Len(written) : i < j => written[i] < written[j]

\* C40: when Sync returns, no record Write accepted before is still waiting
\* in memory only: each has been handed to the underlying writer.
C40_SyncLeavesNothingWaiting == syncs > 0 => waiting = {}

C37_AppendedInExactlyOnePlace ==
    apc = "done" =>
        \A b \in (initial + 1)..appended : (b \in archData) # (b \in logData)

\* C34: no existing watched directory is skipped: a pass that is accepted
\* while no pass is running launches a worker for every entry of its list
\* that is a directory, relative entries too. Here one trigger makes all the
\* calls, each after the pass before has returned.
C34_AcceptedPassTakesEveryDirectory ==
    \A t \in Triggers :
        (/\ pass[t].pc \in {"launch", "wait", "returned"}
         /\ \A u \in Triggers \ {t} : pass[u].pc = "idle") =>
            \A k \in Range(logDirs) :
                IsDir(Abs(k)) =>
                    \E i \in 1..Len(pass[t].dirsToProcess) :
                        Abs(pass[t].dirsToProcess[i]) = Abs(k)

\* C33: processOvernightLogs never runs on a directory while a worker of a
\* pass of the periodic or the startup trigger is inside processDirectory on
\* that directory.
C33_OvernightExcludesWorkers ==
    \A t \in Triggers, w \in WorkerIds :
        (pass[t].pc = "overnight" /\ InProcessDirectory(w))
            => worker[w].d \notin {Abs(k) : k \in Range(logDirs)}

\* C31: no two tasks are at statements that access the same shared variable
\* (processingDirs, processingFiles, the map of dirLocks, lastRunTime) with
\* at least one of them writing it: the mutex of the variable is held around
\* every access.
C31_NoConcurrentAccess ==
    \A j \in Tasks, k \in Tasks :
        j # k => Writes(j) \cap (Reads(k) \cup Writes(k)) = {}

\* C35: a trigger that is waiting at fileLock.Lock(), or whose pass is
\* running, or that is in the overnight processing, gets through: its call
\* returns in the end, given that every file-system call returns.
C35_EveryPassReturns ==
    \A t \in Triggers :
        (pass[t].pc \in {"filelock", "wait", "daily", "overnight"})
            ~> (pass[t].pc = "returned")

====
